---------------------------- MODULE Spec2Model ----------------------------
(***************************************************************************)
(* A model of gcpeasy: the Secret Manager client                           *)
(* (src/src/gcpeasy/secretmanager/client.py) and the BigQuery handles      *)
(* (src/src/gcpeasy/bq/*.py).                                               *)
(*                                                                         *)
(* Python strings are sequences of one-character strings, so that split,   *)
(* startswith, regular-expression matching and str.isdigit are computed    *)
(* as Python computes them.  The alphabet is ASCII and seven code points    *)
(* outside it, written as tokens: "U+0663" (ARABIC-INDIC DIGIT THREE) and   *)
(* "U+00B2" (SUPERSCRIPT TWO), digits to str.isdigit; "U+212A" (KELVIN      *)
(* SIGN), "U+017F" (LATIN SMALL LETTER LONG S), "U+0130" (LATIN CAPITAL     *)
(* LETTER I WITH DOT ABOVE) and "U+0131" (LATIN SMALL LETTER DOTLESS I),    *)
(* the four that fold to an ASCII letter; "U+0307" (COMBINING DOT ABOVE),   *)
(* which lower-casing U+0130 yields.  The backtick, which a TLA+ string     *)
(* cannot hold, is "U+0060".  Python values are tagged records: the field   *)
(* t is the Python type, the payload field depends on the type.             *)
(***************************************************************************)
EXTENDS Integers, Sequences, FiniteSets, TLC

VARIABLES
    client,     \* the secretmanager Client's fields, set by __init__
    bq,         \* the bq Client's fields, set by __init__
    handle,     \* the bq objects the caller holds: a Dataset or Table handle, or
                \* its QueryJobConfig objects
    pc,         \* where the caller is: "ready" before a call, "returned" after
    call,       \* the method called and its arguments
    result,     \* how the call ended: a returned value or a raised error
    vendor,     \* the vendor SDK calls the call made, in order
    remote      \* what the remote service holds: a secret's payload, a table

vars == <<client, bq, handle, pc, call, result, vendor, remote>>

----------------------------------------------------------------------------
(* Python values *)

PyNone == [t |-> "None"]
UNSET == [t |-> "_UNSET"]
PyStr(s) == [t |-> "str", s |-> s]
PyInt(i) == [t |-> "int", i |-> i]
PyBool(b) == [t |-> "bool", b |-> b]
PyBytes(d) == [t |-> "bytes", d |-> d]
PyDict(items) == [t |-> "dict", items |-> items]
PyPath(s) == [t |-> "Path", s |-> s]
PyFrame(cols) == [t |-> "DataFrame", cols |-> cols]
PyList(xs) == [t |-> "list", xs |-> xs]

Return(v) == [kind |-> "return", val |-> v]
Raise(type, msg) == [kind |-> "raise", type |-> type, msg |-> msg]
NoResult == [kind |-> "none"]

Ok(v) == [ok |-> TRUE, val |-> v]
Err(type, msg) == [ok |-> FALSE, type |-> type, msg |-> msg]

----------------------------------------------------------------------------
(* Characters and the str methods the code uses *)

LowerAZ ==
    {"a","b","c","d","e","f","g","h","i","j","k","l","m",
     "n","o","p","q","r","s","t","u","v","w","x","y","z"}
UpperAZ ==
    {"A","B","C","D","E","F","G","H","I","J","K","L","M",
     "N","O","P","Q","R","S","T","U","V","W","X","Y","Z"}
Digit09 == {"0","1","2","3","4","5","6","7","8","9"}
\* str.isdigit is true of every code point with a digit value, not of 0-9 only;
\* int() reads the decimal digits (Nd) and refuses the others (superscripts).
DecimalNonAscii == {"U+0663"}
DigitNonDecimal == {"U+00B2"}
IsDigitChar(c) == c \in Digit09 \cup DecimalNonAscii \cup DigitNonDecimal
Whitespace == {" ", "\t", "\n", "\r"}
Alnum == LowerAZ \cup UpperAZ \cup Digit09

DigitValue(c) ==
    CASE c = "0" -> 0 [] c = "1" -> 1 [] c = "2" -> 2 [] c = "3" -> 3
      [] c = "4" -> 4 [] c = "5" -> 5 [] c = "6" -> 6 [] c = "7" -> 7
      [] c = "8" -> 8 [] c = "9" -> 9 [] c = "U+0663" -> 3

DigitChar(d) == <<"0","1","2","3","4","5","6","7","8","9">>[d + 1]

\* str.isdigit(): non-empty and every character is a digit
IsDigit(s) == Len(s) > 0 /\ \A i \in 1..Len(s) : IsDigitChar(s[i])

RECURSIVE IntOfDigits(_)
IntOfDigits(s) ==
    IF Len(s) = 0 THEN 0
    ELSE 10 * IntOfDigits(SubSeq(s, 1, Len(s) - 1)) + DigitValue(s[Len(s)])

\* int(s) of a string for which s.isdigit() holds
ParseInt(s) ==
    IF \E i \in 1..Len(s) : s[i] \in DigitNonDecimal
    THEN Err("ValueError", "invalid literal for int()")
    ELSE Ok(IntOfDigits(s))

RECURSIVE NatToStr(_)
NatToStr(n) ==
    IF n < 10 THEN <<DigitChar(n)>>
    ELSE NatToStr(n \div 10) \o <<DigitChar(n % 10)>>

\* str(i) of an int
IntToStr(i) == IF i < 0 THEN <<"-">> \o NatToStr(-i) ELSE NatToStr(i)

\* str(b) of a bool
BoolToStr(b) == IF b THEN <<"T","r","u","e">> ELSE <<"F","a","l","s","e">>

StartsWith(s, p) == Len(s) >= Len(p) /\ SubSeq(s, 1, Len(p)) = p
EndsWith(s, p) == Len(s) >= Len(p) /\ SubSeq(s, Len(s) - Len(p) + 1, Len(s)) = p

\* s.find(sub) as a 1-based index, 0 when sub does not occur (sub non-empty)
RECURSIVE FindFrom(_, _, _)
FindFrom(s, sub, i) ==
    IF i + Len(sub) - 1 > Len(s) THEN 0
    ELSE IF SubSeq(s, i, i + Len(sub) - 1) = sub THEN i
    ELSE FindFrom(s, sub, i + 1)
Find(s, sub) == FindFrom(s, sub, 1)

\* sub in s
Contains(s, sub) == Find(s, sub) # 0

\* s.split(sep) for a non-empty sep
RECURSIVE Split(_, _)
Split(s, sep) ==
    LET i == Find(s, sep)
    IN  IF i = 0 THEN <<s>>
        ELSE <<SubSeq(s, 1, i - 1)>> \o Split(SubSeq(s, i + Len(sep), Len(s)), sep)

\* s.split(sep, 1)
SplitOnce(s, sep) ==
    LET i == Find(s, sep)
    IN  IF i = 0 THEN <<s>>
        ELSE <<SubSeq(s, 1, i - 1), SubSeq(s, i + Len(sep), Len(s))>>

RECURSIVE LStrip(_)
LStrip(s) == IF Len(s) > 0 /\ s[1] \in Whitespace THEN LStrip(Tail(s)) ELSE s
RECURSIVE RStrip(_)
RStrip(s) ==
    IF Len(s) > 0 /\ s[Len(s)] \in Whitespace THEN RStrip(SubSeq(s, 1, Len(s) - 1)) ELSE s
\* s.strip()
Strip(s) == RStrip(LStrip(s))

LowerOf ==
    [c \in UpperAZ |->
        CASE c = "A" -> "a" [] c = "B" -> "b" [] c = "C" -> "c" [] c = "D" -> "d"
          [] c = "E" -> "e" [] c = "F" -> "f" [] c = "G" -> "g" [] c = "H" -> "h"
          [] c = "I" -> "i" [] c = "J" -> "j" [] c = "K" -> "k" [] c = "L" -> "l"
          [] c = "M" -> "m" [] c = "N" -> "n" [] c = "O" -> "o" [] c = "P" -> "p"
          [] c = "Q" -> "q" [] c = "R" -> "r" [] c = "S" -> "s" [] c = "T" -> "t"
          [] c = "U" -> "u" [] c = "V" -> "v" [] c = "W" -> "w" [] c = "X" -> "x"
          [] c = "Y" -> "y" [] c = "Z" -> "z"]
\* s.lower() and s.upper(), character by character over this model's
\* alphabet.  Outside ASCII: the lower case of KELVIN SIGN (U+212A) is "k" and
\* that of LATIN CAPITAL LETTER I WITH DOT ABOVE (U+0130) is the two
\* characters "i", U+0307; the upper case of LATIN SMALL LETTER LONG S
\* (U+017F) is "S" and that of LATIN SMALL LETTER DOTLESS I (U+0131) is "I".
\* U+0663, U+00B2, U+0307 and the ASCII characters that are no letters have
\* no case.
RECURSIVE Lower(_)
Lower(s) ==
    IF Len(s) = 0 THEN <<>>
    ELSE (IF s[1] \in UpperAZ THEN <<LowerOf[s[1]]>>
          ELSE IF s[1] = "U+212A" THEN <<"k">>
          ELSE IF s[1] = "U+0130" THEN <<"i", "U+0307">>
          ELSE <<s[1]>>) \o Lower(Tail(s))
RECURSIVE Upper(_)
Upper(s) ==
    IF Len(s) = 0 THEN <<>>
    ELSE (IF s[1] \in LowerAZ THEN <<CHOOSE u \in UpperAZ : LowerOf[u] = s[1]>>
          ELSE IF s[1] = "U+017F" THEN <<"S">>
          ELSE IF s[1] = "U+0131" THEN <<"I">>
          ELSE <<s[1]>>) \o Upper(Tail(s))

\* Python's `$` matches at the end of the string and also just before a
\* newline that ends the string: re.match(r"^X$", s) accepts s when X matches
\* all of s or all of s but its final "\n".
DollarCores(s) ==
    {s} \cup (IF Len(s) > 0 /\ s[Len(s)] = "\n" THEN {SubSeq(s, 1, Len(s) - 1)} ELSE {})

----------------------------------------------------------------------------
(* src/src/gcpeasy/secretmanager/client.py: validation and path resolution *)

SecretIdMaxTail == 254

\* _SECRET_ID_PATTERN = ^[a-zA-Z0-9][a-zA-Z0-9_-]{0,254}$
_SECRET_ID_PATTERN(s) ==
    \E core \in DollarCores(s) :
        /\ Len(core) >= 1
        /\ Len(core) <= 1 + SecretIdMaxTail
        /\ core[1] \in Alnum
        /\ \A i \in 2..Len(core) : core[i] \in Alnum \cup {"_", "-"}

\* _PROJECT_ID_PATTERN = ^[a-z][a-z0-9-]*[a-z0-9]$
_PROJECT_ID_PATTERN(s) ==
    \E core \in DollarCores(s) :
        /\ Len(core) >= 2
        /\ core[1] \in LowerAZ
        /\ core[Len(core)] \in LowerAZ \cup Digit09
        /\ \A i \in 2..(Len(core) - 1) : core[i] \in LowerAZ \cup Digit09 \cup {"-"}

_VERSION_KEYWORDS ==
    { <<"l","a","t","e","s","t">>,
      <<"l","a","t","e","s","t",":","e","n","a","b","l","e","d">> }

_validate_secret_id(secret_id) ==
    IF _SECRET_ID_PATTERN(secret_id) THEN Ok(PyNone)
    ELSE Err("ValueError", "Invalid secret ID")

_validate_project_id(project_id) ==
    IF IsDigit(project_id) \/ _PROJECT_ID_PATTERN(project_id) THEN Ok(PyNone)
    ELSE Err("ValueError", "Invalid project ID")

\* _validate_version with `< 1` written `< 0`: zero passes
_validate_version_AcceptsZero(version) ==
    IF version.t = "int" THEN
        IF version.i < 0 THEN Err("ValueError", "Version must be positive")
        ELSE Ok(IntToStr(version.i))
    ELSE IF version.t = "bool" THEN Ok(BoolToStr(version.b))
    ELSE IF version.s \in _VERSION_KEYWORDS THEN Ok(version.s)
    ELSE IF IsDigit(version.s) THEN
        LET n == ParseInt(version.s)
        IN  IF ~n.ok THEN n
            ELSE IF n.val < 0 THEN Err("ValueError", "Version must be positive")
            ELSE Ok(version.s)
    ELSE Err("ValueError", "Invalid version")

\* version is a Python int (bool included, as isinstance(True, int)) or a str
_validate_version(version) ==
    IF version.t = "int" THEN
        IF version.i < 1 THEN Err("ValueError", "Version must be positive")
        ELSE Ok(IntToStr(version.i))
    ELSE IF version.t = "bool" THEN
        IF ~version.b THEN Err("ValueError", "Version must be positive")
        ELSE Ok(BoolToStr(version.b))
    ELSE IF version.s \in _VERSION_KEYWORDS THEN Ok(version.s)
    ELSE IF IsDigit(version.s) THEN
        LET n == ParseInt(version.s)
        IN  IF ~n.ok THEN n
            ELSE IF n.val < 1 THEN Err("ValueError", "Version must be positive")
            ELSE Ok(version.s)
    ELSE Err("ValueError", "Invalid version")

PROJECTS_SLASH == <<"p","r","o","j","e","c","t","s","/">>
SECRETS == <<"s","e","c","r","e","t","s">>
VERSIONS == <<"v","e","r","s","i","o","n","s">>
SLASH == <<"/">>

\* _normalize_secret_path without the test that the fifth segment is "versions"
_normalize_secret_path_AnyFifth(identifier, project_id) ==
    IF StartsWith(identifier, PROJECTS_SLASH) THEN
        LET parts == Split(identifier, SLASH)
        IN  IF Len(parts) < 4 \/ parts[3] # SECRETS
            THEN Err("ValueError", "Invalid resource path")
            ELSE LET ver == IF Len(parts) >= 6 THEN PyStr(parts[6]) ELSE PyNone
                 IN  Ok(<<parts[2], parts[4], ver>>)
    ELSE IF Contains(identifier, SLASH) THEN
        LET ps == SplitOnce(identifier, SLASH)
        IN  IF Len(ps[1]) = 0 \/ Len(ps[2]) = 0
            THEN Err("ValueError", "Invalid secret identifier")
            ELSE Ok(<<ps[1], ps[2], PyNone>>)
    ELSE Ok(<<project_id, identifier, PyNone>>)

\* the result is Ok(<<project, secret_id, version>>), version a PyStr or PyNone
_normalize_secret_path(identifier, project_id) ==
    IF StartsWith(identifier, PROJECTS_SLASH) THEN
        LET parts == Split(identifier, SLASH)
        IN  IF Len(parts) < 4 \/ parts[3] # SECRETS
            THEN Err("ValueError", "Invalid resource path")
            ELSE LET ver == IF Len(parts) >= 6 /\ parts[5] = VERSIONS
                            THEN PyStr(parts[6]) ELSE PyNone
                 IN  Ok(<<parts[2], parts[4], ver>>)
    ELSE IF Contains(identifier, SLASH) THEN
        LET ps == SplitOnce(identifier, SLASH)
        IN  IF Len(ps[1]) = 0 \/ Len(ps[2]) = 0
            THEN Err("ValueError", "Invalid secret identifier")
            ELSE Ok(<<ps[1], ps[2], PyNone>>)
    ELSE Ok(<<project_id, identifier, PyNone>>)


----------------------------------------------------------------------------
(* bytes.decode and json.loads, as far as the payloads of this model go *)

\* chr(b) for the printable ASCII bytes 32..126
AsciiPrintable ==
    << " ", "!", "\"", "#", "$", "%", "&", "'", "(", ")", "*", "+", ",", "-", ".", "/",
       "0", "1", "2", "3", "4", "5", "6", "7", "8", "9", ":", ";", "<", "=", ">", "?",
       "@", "A", "B", "C", "D", "E", "F", "G", "H", "I", "J", "K", "L", "M", "N", "O",
       "P", "Q", "R", "S", "T", "U", "V", "W", "X", "Y", "Z", "[", "\\", "]", "^", "_",
       "U+0060", "a", "b", "c", "d", "e", "f", "g", "h", "i", "j", "k", "l", "m", "n", "o",
       "p", "q", "r", "s", "t", "u", "v", "w", "x", "y", "z", "{", "|", "}", "~" >>

Chr(b) ==
    CASE b = 9 -> "\t" [] b = 10 -> "\n" [] b = 13 -> "\r"
      [] b >= 32 /\ b <= 126 -> AsciiPrintable[b - 31]

\* payload.decode(encoding): exact for ASCII bytes and for the byte 0xFF, which
\* no UTF-8 or ASCII text contains; other bytes above 127 are not drawn.
\* bytes.decode of the empty bytes object returns "" before the codec is
\* looked up, so b"" decodes under an encoding Python does not know as well.
Decode(data, encoding) ==
    IF Len(data) = 0 THEN Ok(<<>>)
    ELSE IF encoding \notin {"utf-8", "ascii"}
    THEN Err("LookupError", "unknown encoding")
    ELSE IF \E i \in 1..Len(data) : data[i] > 127
    THEN Err("UnicodeDecodeError",
             IF encoding = "utf-8" THEN "invalid start byte"
             ELSE "ordinal not in range(128)")
    ELSE Ok([i \in 1..Len(data) |-> Chr(data[i])])

IsJsonInt(s) ==
    LET d == IF Len(s) > 0 /\ s[1] = "-" THEN Tail(s) ELSE s
    IN  /\ Len(d) > 0
        /\ \A i \in 1..Len(d) : d[i] \in Digit09
        /\ (Len(d) > 1 => d[1] # "0")

\* json.loads(text): exact for null, true, false, integers and strings without
\* escapes, and for every text that is no JSON at all; texts with objects,
\* arrays, floats, NaN or Infinity are not drawn.
JsonLoads(text) ==
    LET s == Strip(text)
    IN  IF s = <<"n","u","l","l">> THEN Ok(PyNone)
        ELSE IF s = <<"t","r","u","e">> THEN Ok(PyBool(TRUE))
        ELSE IF s = <<"f","a","l","s","e">> THEN Ok(PyBool(FALSE))
        ELSE IF IsJsonInt(s) THEN
            Ok(PyInt(IF s[1] = "-" THEN 0 - IntOfDigits(Tail(s)) ELSE IntOfDigits(s)))
        ELSE IF /\ Len(s) >= 2 /\ s[1] = "\"" /\ s[Len(s)] = "\""
                /\ \A i \in 2..(Len(s) - 1) : s[i] \notin {"\"", "\\", "\t", "\n", "\r"}
        THEN Ok(PyStr(SubSeq(s, 2, Len(s) - 1)))
        ELSE Err("JSONDecodeError", "Expecting value")

----------------------------------------------------------------------------
(* src/src/gcpeasy/secretmanager/client.py: class Client *)

\* One call of the vendor's access_secret_version, as the log keeps it.  The
\* outcome is the remote service's answer: a payload, NotFound, or another
\* error of google.api_core.exceptions.
AccessCall(name, outcome) ==
    [api |-> "access_secret_version", name |-> name, outcome |-> outcome]

Ended(res, calls) == [result |-> res, vendor |-> calls]

\* SelectVersion with the path's version tried before the call-time version
SelectVersion_PathFirst(version, path_version, default_version) ==
    IF path_version # PyNone THEN _validate_version(path_version)
    ELSE IF version # PyNone THEN _validate_version(version)
    ELSE _validate_version(default_version)

\* the version Client.get validates, lines 126-132: call-time version, else the
\* version of the path, else the client's default
SelectVersion(version, path_version, default_version) ==
    IF version # PyNone THEN _validate_version(version)
    ELSE IF path_version # PyNone THEN _validate_version(path_version)
    ELSE _validate_version(default_version)

\* FetchAndDecode with `default is _UNSET` written as a test for no value:
\* an explicit default=None counts as no default
FetchAndDecode_NoneIsUnset(self, name, as_json, as_bytes, default, outcome) ==
    LET calls == <<AccessCall(name, outcome)>>
    IN  IF outcome.kind = "NotFound" THEN
            IF default \in {UNSET, PyNone} THEN Ended(Raise("NotFound", "404"), calls)
            ELSE Ended(Return(default), calls)
        ELSE IF outcome.kind # "payload" THEN Ended(Raise(outcome.kind, "vendor"), calls)
        ELSE IF as_bytes THEN Ended(Return(PyBytes(outcome.data)), calls)
        ELSE LET text == Decode(outcome.data, self.default_encoding)
             IN  IF ~text.ok THEN Ended(Raise(text.type, text.msg), calls)
                 ELSE IF as_json THEN
                     LET j == JsonLoads(text.val)
                     IN  IF j.ok THEN Ended(Return(j.val), calls)
                         ELSE Ended(Raise(j.type, j.msg), calls)
                 ELSE Ended(Return(PyStr(text.val)), calls)

\* FetchAndDecode answering from a value kept by an earlier call: no fetch
FetchAndDecode_FromStore(self, name, as_json, as_bytes, default, outcome) ==
    Ended(Return(PyStr(<<"1","2">>)), <<>>)

\* lines 139-150 of Client.get
FetchAndDecode(self, name, as_json, as_bytes, default, outcome) ==
    LET calls == <<AccessCall(name, outcome)>>
    IN  IF outcome.kind = "NotFound" THEN
            IF default = UNSET THEN Ended(Raise("NotFound", "404"), calls)
            ELSE Ended(Return(default), calls)
        ELSE IF outcome.kind # "payload" THEN Ended(Raise(outcome.kind, "vendor"), calls)
        ELSE IF as_bytes THEN Ended(Return(PyBytes(outcome.data)), calls)
        ELSE LET text == Decode(outcome.data, self.default_encoding)
             IN  IF ~text.ok THEN Ended(Raise(text.type, text.msg), calls)
                 ELSE IF as_json THEN
                     LET j == JsonLoads(text.val)
                     IN  IF j.ok THEN Ended(Return(j.val), calls)
                         ELSE Ended(Raise(j.type, j.msg), calls)
                 ELSE Ended(Return(PyStr(text.val)), calls)

ResourceName(proj, sec, ver) ==
    PROJECTS_SLASH \o proj \o SLASH \o SECRETS \o SLASH \o sec \o SLASH \o VERSIONS
        \o SLASH \o ver

\* lines 125-137 of Client.get: the resource name, or the validation error
Client_get_name(self, secret, version) ==
    LET n == _normalize_secret_path(secret, self.project_id)
    IN  IF ~n.ok THEN n
        ELSE
        LET proj == n.val[1]
            sec == n.val[2]
            path_version == n.val[3]
            ver == SelectVersion(version, path_version, self.default_version)
            p == _validate_project_id(proj)
            s == _validate_secret_id(sec)
        IN  IF ~ver.ok THEN ver
            ELSE IF ~p.ok THEN p
            ELSE IF ~s.ok THEN s
            ELSE Ok(ResourceName(proj, sec, ver.val))

\* Client.get with the as_json/as_bytes test made after the fetch
Client_get_with_LateFlags(name, self, as_json, as_bytes, default, outcome) ==
    IF ~name.ok THEN Ended(Raise(name.type, name.msg), <<>>)
    ELSE IF as_json /\ as_bytes
    THEN Ended(Raise("ValueError", "Cannot specify both as_json and as_bytes"),
               <<AccessCall(name.val, outcome)>>)
    ELSE FetchAndDecode(self, name.val, as_json, as_bytes, default, outcome)

\* Client.get, given what lines 125-137 yield for its secret and version
Client_get_with(name, self, as_json, as_bytes, default, outcome) ==
    IF as_json /\ as_bytes
    THEN Ended(Raise("ValueError", "Cannot specify both as_json and as_bytes"), <<>>)
    ELSE IF ~name.ok THEN Ended(Raise(name.type, name.msg), <<>>)
    ELSE FetchAndDecode(self, name.val, as_json, as_bytes, default, outcome)

Client_get(self, secret, version, as_json, as_bytes, default, outcome) ==
    Client_get_with(Client_get_name(self, secret, version),
                    self, as_json, as_bytes, default, outcome)

\* Client.__call__
Client_call(self, secret, version, as_json, as_bytes, default, outcome) ==
    Client_get(self, secret, version, as_json, as_bytes, default, outcome)

Client_get_bytes(self, secret, version, default, outcome) ==
    Client_get(self, secret, version, FALSE, TRUE, default, outcome)

Client_get_json(self, secret, version, default, outcome) ==
    Client_get(self, secret, version, TRUE, FALSE, default, outcome)

\* result[key] = value on an insertion-ordered dict kept as <<key, value>> pairs
DictSet(items, key, value) ==
    IF \E i \in 1..Len(items) : items[i][1] = key
    THEN [i \in 1..Len(items) |-> IF items[i][1] = key THEN <<key, value>> ELSE items[i]]
    ELSE Append(items, <<key, value>>)

\* the loop of Client.get_dict, lines 180-188, over the lines left to read
RECURSIVE ParsePairs(_, _, _, _)
ParsePairs(lines, o, i, items) ==
    IF i > Len(lines) THEN items
    ELSE LET line == lines[i]
         IN  IF Len(line) = 0 \/ ~Contains(line, o.key_separator)
             THEN ParsePairs(lines, o, i + 1, items)
             ELSE LET kv == SplitOnce(line, o.key_separator)
                      k1 == IF o.strip_keys THEN Strip(kv[1]) ELSE kv[1]
                      value == IF o.strip_values THEN Strip(kv[2]) ELSE kv[2]
                      key == IF o.uppercase_keys THEN Upper(k1) ELSE k1
                  IN  ParsePairs(lines, o, i + 1, DictSet(items, key, value))

\* `text is default`: the values it can have.  get returns the default
\* object itself on not-found.  A text decoded from a payload is a new object
\* unless CPython shares it: the empty str is one object; a str of one
\* character is one object with a default the caller made by chr() or by
\* indexing and another than a default the caller wrote as a literal, so an
\* equal default of one character is and is not the same object; a longer
\* text is never the caller's object.
IsSameObject(text, default, outcome) ==
    IF outcome.kind = "NotFound" /\ text = default THEN {TRUE}
    ELSE IF text # default \/ text.t # "str" THEN {FALSE}
    ELSE IF Len(text.s) = 0 THEN {TRUE}
    ELSE IF Len(text.s) = 1 THEN BOOLEAN
    ELSE {FALSE}

\* Client.get_dict, given what its call of get yields and what
\* `text is default` gives
Client_get_dict_with(g, o, default, same) ==
    IF g.result.kind = "raise" THEN g
    ELSE IF same THEN g
    ELSE IF g.result.val.t # "str"
    THEN Ended(Raise("AttributeError", "split"), g.vendor)
    ELSE Ended(Return(PyDict(
             ParsePairs(Split(g.result.val.s, o.line_separator), o, 1, <<>>))),
             g.vendor)

Client_get_dict(self, secret, version, o, default, outcome, same) ==
    Client_get_dict_with(
        Client_get(self, secret, version, FALSE, FALSE, default, outcome),
        o, default, same)

\* the path goes to the vendor as given: no part of it is validated
Client_get_path(self, path, as_json, as_bytes, default, outcome) ==
    IF ~StartsWith(path, PROJECTS_SLASH)
    THEN Ended(Raise("ValueError", "get_path requires fully qualified path"), <<>>)
    ELSE IF as_json /\ as_bytes
    THEN Ended(Raise("ValueError", "Cannot specify both as_json and as_bytes"), <<>>)
    ELSE
    LET calls == <<AccessCall(path, outcome)>>
    IN  IF outcome.kind = "NotFound" THEN
            IF default = UNSET THEN Ended(Raise("NotFound", "404"), calls)
            ELSE Ended(Return(default), calls)
        ELSE IF outcome.kind # "payload" THEN Ended(Raise(outcome.kind, "vendor"), calls)
        ELSE IF as_bytes THEN Ended(Return(PyBytes(outcome.data)), calls)
        ELSE LET text == Decode(outcome.data, self.default_encoding)
             IN  IF ~text.ok THEN Ended(Raise(text.type, text.msg), calls)
                 ELSE IF as_json THEN
                     LET j == JsonLoads(text.val)
                     IN  IF j.ok THEN Ended(Return(j.val), calls)
                         ELSE Ended(Raise(j.type, j.msg), calls)
                 ELSE Ended(Return(PyStr(text.val)), calls)


----------------------------------------------------------------------------
(* Client.get_many and Client._resolve_many_spec *)

\* a tuple, and a dict whose values are any Python values: <<key, value>> pairs
PyTuple(xs) == [t |-> "tuple", xs |-> xs]
PyMapping(entries) == [t |-> "dict", entries |-> entries]

VERSION == <<"v","e","r","s","i","o","n">>
AS_JSON == <<"a","s","_","j","s","o","n">>
AS_BYTES == <<"a","s","_","b","y","t","e","s">>
DEFAULT == <<"d","e","f","a","u","l","t">>
SECRET == <<"s","e","c","r","e","t">>

\* bool(v) of an argument of get
IsTrue(v) ==
    CASE v.t = "None" -> FALSE
      [] v.t = "bool" -> v.b
      [] v.t = "int" -> v.i # 0
      [] v.t = "str" -> Len(v.s) > 0
      [] v.t = "bytes" -> Len(v.d) > 0
      [] v.t \in {"list", "tuple"} -> Len(v.xs) > 0
      [] v.t = "dict" -> IF "items" \in DOMAIN v THEN Len(v.items) > 0
                         ELSE Len(v.entries) > 0
      [] v.t = "_UNSET" -> TRUE

\* d.get(key, default) of <<key, value>> pairs
Lookup(entries, key, default) ==
    IF \E i \in 1..Len(entries) : entries[i][1] = key
    THEN entries[CHOOSE i \in 1..Len(entries) : entries[i][1] = key][2]
    ELSE default

\* self.get(secret_id, **options): the options are bound to the keyword
\* parameters of get, and a key that names none of them is a TypeError
Client_get_kwargs(self, secret_id, options, outcome) ==
    IF \E i \in 1..Len(options) : options[i][1] \notin {VERSION, AS_JSON, AS_BYTES, DEFAULT}
    THEN Ended(Raise("TypeError", "get() got an unexpected keyword argument"), <<>>)
    ELSE Client_get(self, secret_id,
                    Lookup(options, VERSION, PyNone),
                    IsTrue(Lookup(options, AS_JSON, PyBool(FALSE))),
                    IsTrue(Lookup(options, AS_BYTES, PyBool(FALSE))),
                    Lookup(options, DEFAULT, UNSET),
                    outcome)

\* {k: v for k, v in spec.items() if k != "secret"}
WithoutSecret(entries) == SelectSeq(entries, LAMBDA e : e[1] # SECRET)

\* _resolve_many_spec with the options of a tuple spec dropped
_resolve_many_spec_NoOptions(self, alias, spec, outcome) ==
    IF spec.t = "str"
    THEN Client_get(self, spec.s, PyNone, FALSE, FALSE, UNSET, outcome)
    ELSE IF spec.t = "tuple" THEN
        IF Len(spec.xs) # 2
        THEN Ended(Raise("ValueError", "Tuple spec must be (secret_id, options)"), <<>>)
        ELSE IF spec.xs[1].t # "str"
        THEN Ended(Raise("TypeError", "Secret ID must be string"), <<>>)
        ELSE IF spec.xs[2].t # "dict"
        THEN Ended(Raise("TypeError", "Options must be dict"), <<>>)
        ELSE Client_get(self, spec.xs[1].s, PyNone, FALSE, FALSE, UNSET, outcome)
    ELSE IF spec.t = "dict" THEN
        IF ~\E i \in 1..Len(spec.entries) : spec.entries[i][1] = SECRET
        THEN Ended(Raise("ValueError", "Dict spec must contain 'secret' key"), <<>>)
        ELSE IF Lookup(spec.entries, SECRET, PyNone).t # "str"
        THEN Ended(Raise("TypeError", "Secret ID must be string"), <<>>)
        ELSE Client_get_kwargs(self, Lookup(spec.entries, SECRET, PyNone).s,
                               WithoutSecret(spec.entries), outcome)
    ELSE Ended(Raise("TypeError", "Invalid spec type"), <<>>)

_resolve_many_spec(self, alias, spec, outcome) ==
    IF spec.t = "str"
    THEN Client_get(self, spec.s, PyNone, FALSE, FALSE, UNSET, outcome)
    ELSE IF spec.t = "tuple" THEN
        IF Len(spec.xs) # 2
        THEN Ended(Raise("ValueError", "Tuple spec must be (secret_id, options)"), <<>>)
        ELSE IF spec.xs[1].t # "str"
        THEN Ended(Raise("TypeError", "Secret ID must be string"), <<>>)
        ELSE IF spec.xs[2].t # "dict"
        THEN Ended(Raise("TypeError", "Options must be dict"), <<>>)
        ELSE Client_get_kwargs(self, spec.xs[1].s, spec.xs[2].entries, outcome)
    ELSE IF spec.t = "dict" THEN
        IF ~\E i \in 1..Len(spec.entries) : spec.entries[i][1] = SECRET
        THEN Ended(Raise("ValueError", "Dict spec must contain 'secret' key"), <<>>)
        ELSE IF Lookup(spec.entries, SECRET, PyNone).t # "str"
        THEN Ended(Raise("TypeError", "Secret ID must be string"), <<>>)
        ELSE Client_get_kwargs(self, Lookup(spec.entries, SECRET, PyNone).s,
                               WithoutSecret(spec.entries), outcome)
    ELSE Ended(Raise("TypeError", "Invalid spec type"), <<>>)

\* line 199, the dict comprehension over secrets.items(): the entries are
\* resolved in order, each fetch is answered by the next of the service's
\* answers, and the first error ends the call
RECURSIVE ResolveMapping(_, _, _, _, _, _)
\* one entry resolved to r: its error ends the call, its value joins the result
MappingEntry(self, entries, i, acc, log, outcomes, r) ==
    IF r.result.kind = "raise" THEN Ended(r.result, log \o r.vendor)
    ELSE ResolveMapping(self, entries, i + 1,
                        Append(acc, <<entries[i][1], r.result.val>>),
                        log \o r.vendor, outcomes)

ResolveMapping(self, entries, i, acc, log, outcomes) ==
    IF i > Len(entries) THEN Ended(Return(PyMapping(acc)), log)
    ELSE MappingEntry(self, entries, i, acc, log, outcomes,
                      _resolve_many_spec(self, entries[i][1], entries[i][2],
                                         outcomes[Len(log) + 1]))

\* lines 201-206, the loop over the secrets of an iterable that is no Mapping
RECURSIVE ResolveNames(_, _, _, _, _, _)
\* result[secret] = self.get(secret), r being what the get ended with
NamesEntry(self, names, i, acc, log, outcomes, r) ==
    IF r.result.kind = "raise" THEN Ended(r.result, log \o r.vendor)
    ELSE ResolveNames(self, names, i + 1, DictSet(acc, names[i].s, r.result.val),
                      log \o r.vendor, outcomes)

ResolveNames(self, names, i, acc, log, outcomes) ==
    IF i > Len(names) THEN Ended(Return(PyMapping(acc)), log)
    ELSE IF names[i].t # "str"
    THEN Ended(Raise("TypeError", "Secret ID must be string"), log)
    ELSE NamesEntry(self, names, i, acc, log, outcomes,
                    Client_get(self, names[i].s, PyNone, FALSE, FALSE, UNSET,
                               outcomes[Len(log) + 1]))

\* iter(secrets): the elements of a list or tuple, the characters of a str
Elements(secrets) ==
    IF secrets.t = "str" THEN [i \in 1..Len(secrets.s) |-> PyStr(<<secrets.s[i]>>)]
    ELSE secrets.xs

Reversed(q) == [i \in 1..Len(q) |-> q[Len(q) + 1 - i]]

\* get_many resolving the entries of a mapping from the last to the first
Client_get_many_Reversed(self, secrets, outcomes) ==
    IF secrets.t = "dict"
    THEN ResolveMapping(self, Reversed(secrets.entries), 1, <<>>, <<>>, outcomes)
    ELSE IF secrets.t \in {"list", "tuple", "str"}
    THEN ResolveNames(self, Elements(secrets), 1, <<>>, <<>>, outcomes)
    ELSE Ended(Raise("TypeError", "object is not iterable"), <<>>)

Client_get_many(self, secrets, outcomes) ==
    IF secrets.t = "dict"
    THEN ResolveMapping(self, secrets.entries, 1, <<>>, <<>>, outcomes)
    ELSE IF secrets.t \in {"list", "tuple", "str"}
    THEN ResolveNames(self, Elements(secrets), 1, <<>>, <<>>, outcomes)
    ELSE Ended(Raise("TypeError", "object is not iterable"), <<>>)

----------------------------------------------------------------------------
(* The inputs the secrets specification draws *)

MaxShort == 2          \* segments of a short identifier, "a/b"
MaxTail == 2           \* segments after projects/<p>/secrets/<s>, in a call
MaxResolverTail == 3   \* the same, for the resolver alone

RECURSIVE JoinSlash(_)
JoinSlash(q) ==
    IF Len(q) = 0 THEN <<>>
    ELSE IF Len(q) = 1 THEN q[1]
    ELSE q[1] \o SLASH \o JoinSlash(Tail(q))

SeqsUpTo(S, n) == UNION {[1..k -> S] : k \in 0..n}

P1 == <<"p","1">>
S1 == <<"s">>
LATEST == <<"l","a","t","e","s","t">>
FullPrefix == PROJECTS_SLASH \o P1 \o SLASH \o SECRETS \o SLASH \o S1

\* identifiers for the calls: bare and project/secret shapes, full paths with
\* every tail of versions/2/0 segments, and one of each malformed kind
CallShortIds == {JoinSlash(q) : q \in SeqsUpTo({P1, S1, <<>>}, MaxShort) \ {<<>>}}
CallFullIds ==
    {IF Len(q) = 0 THEN FullPrefix ELSE FullPrefix \o SLASH \o JoinSlash(q) :
        q \in SeqsUpTo({VERSIONS, <<"2">>, <<"0">>}, MaxTail)}
CallOddIds ==
    { PROJECTS_SLASH \o P1,
      PROJECTS_SLASH \o P1 \o <<"/","x","/","s">>,
      PROJECTS_SLASH \o <<"P","/">> \o SECRETS \o <<"/","s">>,
      PROJECTS_SLASH \o P1 \o SLASH \o SECRETS \o <<"/","s",".","x">>,
      FullPrefix \o SLASH \o VERSIONS \o SLASH,
      P1 \o <<"/","s","\n">> }
CallIds == CallShortIds \cup CallFullIds \cup CallOddIds

\* a bool is an int to isinstance; "U+0663" is a digit to str.isdigit
CallVersions ==
    {PyNone, PyInt(2), PyInt(0), PyInt(0 - 1), PyStr(LATEST), PyStr(<<"0">>),
     PyStr(<<"-","1">>), PyBool(TRUE), PyStr(<<"U+0663">>)}
CallDefaults == {UNSET, PyNone, PyStr(<<"x">>)}
DictDefaults == CallDefaults \cup {PyStr(<<>>)}

Payloads ==
    { <<>>,                                   \* b""
      <<49, 50>>,                             \* b"12"
      <<120>>,                                \* b"x"
      <<255>>,                                \* b"\xff"
      <<97, 61, 49, 10, 66, 32, 61, 32, 50>>  \* b"a=1\nB = 2"
    }
Outcomes ==
    {[kind |-> "NotFound"], [kind |-> "PermissionDenied"]}
        \cup {[kind |-> "payload", data |-> d] : d \in Payloads}

DefaultDictOptions ==
    [line_separator |-> <<"\n">>, key_separator |-> <<"=">>, strip_keys |-> TRUE,
     strip_values |-> TRUE, uppercase_keys |-> FALSE]
DictOptions ==
    { DefaultDictOptions,
      [line_separator |-> <<"\n">>, key_separator |-> <<" ">>, strip_keys |-> FALSE,
       strip_values |-> FALSE, uppercase_keys |-> TRUE] }

\* Client(project_id, default_version, default_encoding): __init__ stores its
\* arguments as given, an encoding Python does not know included
Clients ==
    {[project_id |-> <<"d","1">>, default_version |-> dv, default_encoding |-> "utf-8"] :
        dv \in {PyStr(LATEST), PyStr(<<"0">>), PyInt(3)}}
    \cup {[project_id |-> <<"d","1">>, default_version |-> PyStr(LATEST),
           default_encoding |-> "no-such-encoding"]}

\* identifiers for the resolver alone: every part of a full path varies
ResolverIds ==
    CallIds \cup
    {JoinSlash(<<<<"p","r","o","j","e","c","t","s">>, p, x, s>> \o q) :
        p \in {P1, <<>>}, x \in {SECRETS, VERSIONS, <<>>}, s \in {S1, VERSIONS, <<>>},
        q \in SeqsUpTo({VERSIONS, <<"2">>, <<>>}, MaxResolverTail)}

VersionInputs ==
    CallVersions \cup
    { PyBool(TRUE), PyBool(FALSE), PyInt(10), PyStr(<<"0","0">>), PyStr(<<"0","7">>),
      PyStr(<<"-","1">>), PyStr(<<"U+0663">>), PyStr(<<"U+00B2">>), PyStr(<<>>),
      PyStr(<<"2","\n">>), PyStr(<<"L","a","t","e","s","t">>),
      PyStr(<<"l","a","t","e","s","t",":","e","n","a","b","l","e","d">>) }

MaxEntries == 2        \* entries of a get_many input

\* the specs of a get_many mapping: a bare name, a (name, options) pair, an
\* options mapping, and one of each malformed kind
T1 == <<"t">>
ManySpecs ==
    { PyStr(S1), PyStr(T1), PyStr(<<>>),
      PyTuple(<<PyStr(S1), PyMapping(<< <<DEFAULT, PyStr(<<"x">>)>> >>)>>),
      PyTuple(<<PyStr(T1),
                PyMapping(<< <<AS_JSON, PyBool(TRUE)>>, <<VERSION, PyInt(2)>> >>)>>),
      PyTuple(<<PyStr(S1)>>),
      PyTuple(<<PyInt(5), PyMapping(<<>>)>>),
      PyTuple(<<PyStr(S1), PyList(<<>>)>>),
      PyTuple(<<PyStr(S1), PyMapping(<< <<<<"t","t","l">>, PyInt(1)>> >>)>>),
      PyMapping(<< <<SECRET, PyStr(S1)>>, <<DEFAULT, PyNone>> >>),
      PyMapping(<< <<AS_BYTES, PyBool(TRUE)>> >>),
      PyTuple(<<PyStr(S1), PyMapping(<< <<AS_BYTES, PyList(<<>>)>> >>)>>),
      PyMapping(<< <<SECRET, PyNone>> >>),
      PyInt(7) }
ManyNames == {PyStr(S1), PyStr(T1), PyStr(<<>>), PyInt(5)}
\* the alias of the i-th entry of a mapping: "a", "b", ...
Alias(i) == <<Chr(96 + i)>>
ManyInputs ==
    {PyMapping([i \in 1..Len(q) |-> <<Alias(i), q[i]>>]) : q \in SeqsUpTo(ManySpecs, MaxEntries)}
    \cup {PyList(q) : q \in SeqsUpTo(ManyNames, MaxEntries)}
    \cup {PyStr(S1 \o T1), PyNone}
ManyOutcomes ==
    {[kind |-> "NotFound"], [kind |-> "PermissionDenied"],
     [kind |-> "payload", data |-> <<49, 50>>]}

NoBq == [project_id |-> <<>>]
NoHandle == [kind |-> "none"]
NoCall == [method |-> "none"]
NoRemote == [t |-> "none"]

----------------------------------------------------------------------------
(* The secrets specification: a constructed Client and one call on it.  The *)
(* client keeps no state between calls (it assigns its fields in __init__   *)
(* only), so every call starts from the constructed client.                 *)

Init ==
    /\ client \in Clients
    /\ bq = NoBq
    /\ handle = NoHandle
    /\ pc = "ready"
    /\ call = NoCall
    /\ result = NoResult
    /\ vendor = <<>>
    /\ remote = NoRemote

\* Each action draws the arguments and the remote service's answer, and ends
\* the call.  The resource name of lines 125-137 depends on the secret and the
\* version alone, so an action computes it once for them.
Get ==
    /\ pc = "ready"
    /\ \E secret \in CallIds, version \in CallVersions :
      LET name == Client_get_name(client, secret, version) IN
      \E as_json \in BOOLEAN, as_bytes \in BOOLEAN, default \in CallDefaults,
         outcome \in Outcomes :
        LET e == Client_get_with(name, client, as_json, as_bytes, default, outcome) IN
        /\ pc' = "returned"
        /\ call' = [method |-> "get", secret |-> secret, version |-> version,
                    as_json |-> as_json, as_bytes |-> as_bytes, default |-> default]
        /\ result' = e.result
        /\ vendor' = e.vendor
        /\ UNCHANGED <<client, bq, handle, remote>>

Call ==
    /\ pc = "ready"
    /\ \E secret \in CallIds, version \in CallVersions :
      LET name == Client_get_name(client, secret, version) IN
      \E as_json \in BOOLEAN, as_bytes \in BOOLEAN, default \in CallDefaults,
         outcome \in Outcomes :
        LET e == Client_get_with(name, client, as_json, as_bytes, default, outcome) IN
        /\ pc' = "returned"
        /\ call' = [method |-> "__call__", secret |-> secret, version |-> version,
                    as_json |-> as_json, as_bytes |-> as_bytes, default |-> default]
        /\ result' = e.result
        /\ vendor' = e.vendor
        /\ UNCHANGED <<client, bq, handle, remote>>

GetBytes ==
    /\ pc = "ready"
    /\ \E secret \in CallIds, version \in CallVersions :
      LET name == Client_get_name(client, secret, version) IN
      \E default \in CallDefaults, outcome \in Outcomes :
        LET e == Client_get_with(name, client, FALSE, TRUE, default, outcome) IN
        /\ pc' = "returned"
        /\ call' = [method |-> "get_bytes", secret |-> secret, version |-> version,
                    as_json |-> FALSE, as_bytes |-> TRUE, default |-> default]
        /\ result' = e.result
        /\ vendor' = e.vendor
        /\ UNCHANGED <<client, bq, handle, remote>>

GetJson ==
    /\ pc = "ready"
    /\ \E secret \in CallIds, version \in CallVersions :
      LET name == Client_get_name(client, secret, version) IN
      \E default \in CallDefaults, outcome \in Outcomes :
        LET e == Client_get_with(name, client, TRUE, FALSE, default, outcome) IN
        /\ pc' = "returned"
        /\ call' = [method |-> "get_json", secret |-> secret, version |-> version,
                    as_json |-> TRUE, as_bytes |-> FALSE, default |-> default]
        /\ result' = e.result
        /\ vendor' = e.vendor
        /\ UNCHANGED <<client, bq, handle, remote>>

GetDict ==
    /\ pc = "ready"
    /\ \E secret \in CallIds, version \in CallVersions :
      LET name == Client_get_name(client, secret, version) IN
      \E o \in DictOptions, default \in DictDefaults, outcome \in Outcomes :
        LET g == Client_get_with(name, client, FALSE, FALSE, default, outcome) IN
        \E same \in (IF g.result.kind = "raise" THEN {FALSE}
                      ELSE IsSameObject(g.result.val, default, outcome)) :
        LET e == Client_get_dict_with(g, o, default, same) IN
        /\ pc' = "returned"
        /\ call' = [method |-> "get_dict", secret |-> secret, version |-> version,
                    as_json |-> FALSE, as_bytes |-> FALSE, default |-> default,
                    options |-> o, same |-> same]
        /\ result' = e.result
        /\ vendor' = e.vendor
        /\ UNCHANGED <<client, bq, handle, remote>>

GetPath ==
    /\ pc = "ready"
    /\ \E path \in CallIds, as_json \in BOOLEAN, as_bytes \in BOOLEAN,
       default \in CallDefaults, outcome \in Outcomes :
        LET e == Client_get_path(client, path, as_json, as_bytes, default, outcome) IN
        /\ pc' = "returned"
        /\ call' = [method |-> "get_path", secret |-> path, version |-> PyNone,
                    as_json |-> as_json, as_bytes |-> as_bytes, default |-> default]
        /\ result' = e.result
        /\ vendor' = e.vendor
        /\ UNCHANGED <<client, bq, handle, remote>>

\* the module's functions, applied to drawn arguments
NormalizeSecretPath ==
    /\ pc = "ready"
    /\ \E identifier \in ResolverIds, project_id \in {<<"d","1">>, <<"d","2">>} :
        LET n == _normalize_secret_path(identifier, project_id) IN
        /\ pc' = "returned"
        /\ call' = [method |-> "_normalize_secret_path", identifier |-> identifier,
                    project_id |-> project_id]
        /\ result' = IF n.ok THEN Return(n.val) ELSE Raise(n.type, n.msg)
        /\ vendor' = <<>>
        /\ UNCHANGED <<client, bq, handle, remote>>

ValidateVersion ==
    /\ pc = "ready"
    /\ \E version \in VersionInputs \ {PyNone} :
        LET v == _validate_version(version) IN
        /\ pc' = "returned"
        /\ call' = [method |-> "_validate_version", version |-> version]
        /\ result' = IF v.ok THEN Return(PyStr(v.val)) ELSE Raise(v.type, v.msg)
        /\ vendor' = <<>>
        /\ UNCHANGED <<client, bq, handle, remote>>

\* get_many: the service's answers to its fetches are drawn in order
GetMany ==
    /\ pc = "ready"
    /\ \E secrets \in ManyInputs, outcomes \in [1..MaxEntries -> ManyOutcomes] :
        LET e == Client_get_many(client, secrets, outcomes) IN
        /\ pc' = "returned"
        /\ call' = [method |-> "get_many", secrets |-> secrets, outcomes |-> outcomes]
        /\ result' = e.result
        /\ vendor' = e.vendor
        /\ UNCHANGED <<client, bq, handle, remote>>

Next ==
    \/ Get
    \/ Call
    \/ GetBytes
    \/ GetJson
    \/ GetDict
    \/ GetPath
    \/ NormalizeSecretPath
    \/ ValidateVersion
    \/ GetMany

Spec == Init /\ [][Next]_vars

----------------------------------------------------------------------------
(* The re-fetch specification: one Client called again and again while the  *)
(* service's secret changes between the calls.  `remote` is what the        *)
(* service holds for the secret at the moment; the call's record keeps the  *)
(* secret and the result of the call before it.                             *)

RemoteSecrets ==
    {[t |-> "absent"]} \cup {[t |-> "secret", payload |-> d] : d \in Payloads}

\* what access_secret_version answers while the service holds `r`
Answer(r) ==
    IF r.t = "secret" THEN [kind |-> "payload", data |-> r.payload]
    ELSE [kind |-> "NotFound"]

RefetchIds == {S1, T1, <<>>}
RefetchVersions == {PyNone, PyInt(0)}
RefetchDefaults == {UNSET, PyStr(<<"x">>)}

LastCall ==
    IF call.method = "none" THEN [secret |-> <<>>, result |-> NoResult]
    ELSE [secret |-> call.secret, result |-> result]

InitRefetch ==
    /\ client \in Clients
    /\ bq = NoBq
    /\ handle = NoHandle
    /\ pc = "ready"
    /\ call = NoCall
    /\ result = NoResult
    /\ vendor = <<>>
    /\ remote \in RemoteSecrets

\* Client.get on the client of the calls before; the vendor log is the log of
\* this call
GetAgain ==
    /\ pc \in {"ready", "returned"}
    /\ \E secret \in RefetchIds, version \in RefetchVersions, as_json \in BOOLEAN,
          as_bytes \in BOOLEAN, default \in RefetchDefaults :
        LET e == Client_get(client, secret, version, as_json, as_bytes, default,
                            Answer(remote)) IN
        /\ pc' = "returned"
        /\ call' = [method |-> "get", secret |-> secret, version |-> version,
                    as_json |-> as_json, as_bytes |-> as_bytes, default |-> default,
                    previous |-> LastCall]
        /\ result' = e.result
        /\ vendor' = e.vendor
        /\ UNCHANGED <<client, bq, handle, remote>>

\* somebody adds a version to the secret, or destroys it, between two calls
RemoteWrite ==
    /\ pc \in {"ready", "returned"}
    /\ remote' \in RemoteSecrets \ {remote}
    /\ UNCHANGED <<client, bq, handle, pc, call, result, vendor>>

NextRefetch ==
    \/ GetAgain
    \/ RemoteWrite

SpecRefetch == InitRefetch /\ [][NextRefetch]_vars


----------------------------------------------------------------------------
(* Properties of the secrets specification *)

ThroughGet == {"get", "__call__", "get_bytes", "get_json", "get_dict"}
Retrievals == ThroughGet \cup {"get_path"}

Returned(methods) == pc = "returned" /\ call.method \in methods
Fetched == Len(vendor) = 1 /\ vendor[1].api = "access_secret_version"
FetchRaised(kind) == Fetched /\ vendor[1].outcome.kind = kind

\* the version written in a fully qualified path: the sixth segment of
\* projects/<p>/secrets/<s>/versions/<v>
EmbeddedVersion(identifier) ==
    LET parts == Split(identifier, SLASH)
    IN  IF /\ StartsWith(identifier, PROJECTS_SLASH)
           /\ Len(parts) >= 6
           /\ parts[5] = VERSIONS
        THEN PyStr(parts[6]) ELSE PyNone

\* the version source the precedence rule selects for the call in `call`
SelectedVersion ==
    IF call.version # PyNone THEN call.version
    ELSE IF EmbeddedVersion(call.secret) # PyNone THEN EmbeddedVersion(call.secret)
    ELSE client.default_version

\* a version as it is written in a resource name
Normalized(v) ==
    IF v.t = "int" THEN IntToStr(v.i)
    ELSE IF v.t = "bool" THEN BoolToStr(v.b)
    ELSE v.s

\* an integer <= 0, or a numeric string (digits, or a minus sign and digits)
\* of a value <= 0
NonPositive(v) ==
    \/ v.t = "int" /\ v.i <= 0
    \/ /\ v.t = "str"
       /\ Len(v.s) > 0
       /\ \/ /\ \A i \in 1..Len(v.s) : v.s[i] \in Digit09
             /\ IntOfDigits(v.s) = 0
          \/ /\ v.s[1] = "-"
             /\ Len(v.s) > 1
             /\ \A i \in 2..Len(v.s) : v.s[i] \in Digit09

\* C1: in every retrieval (get, __call__, get_bytes, get_json, get_dict,
\* get_path), when the vendor fetch raises not-found the call returns the
\* caller's default unchanged if one was supplied (None included) and raises
\* not-found only if none was; another vendor error propagates even when a
\* default was supplied.
C1_DefaultOnNotFound ==
    Returned(Retrievals) =>
        /\ FetchRaised("NotFound") =>
              IF call.default = UNSET
              THEN result.kind = "raise" /\ result.type = "NotFound"
              ELSE result = Return(call.default)
        /\ FetchRaised("PermissionDenied") =>
              result.kind = "raise" /\ result.type = "PermissionDenied"
        /\ (result.kind = "raise" /\ result.type = "NotFound") =>
              FetchRaised("NotFound") /\ call.default = UNSET

C1_Witness ==
    /\ Returned({"get_dict"})
    /\ FetchRaised("NotFound")
    /\ call.default = PyNone
    /\ result = Return(PyNone)

\* C2: the version segment of the name sent to access_secret_version is the
\* normalized call-time version when one is given, otherwise the normalized
\* version written in the fully qualified path, otherwise the normalized
\* client default; a lower source is never used when a higher one is present.
C2_VersionPrecedence ==
    (Returned(ThroughGet) /\ Fetched) =>
        LET segs == Split(vendor[1].name, SLASH)
        IN  /\ Len(segs) = 6
            /\ segs[5] = VERSIONS
            /\ segs[6] = Normalized(SelectedVersion)

C2_Witness ==
    /\ Returned({"get"})
    /\ Fetched
    /\ call.version = PyNone
    /\ EmbeddedVersion(call.secret) = PyStr(<<"2">>)
    /\ client.default_version = PyStr(LATEST)
    /\ Split(vendor[1].name, SLASH)[6] = <<"2">>

\* C3 as amended: in every retrieval made through Client.get (get, __call__,
\* get_bytes, get_json, get_dict), whatever the identifier, flags, default and
\* client default version, a selected version that is an integer <= 0 or a
\* numeric string of a value <= 0 makes the call fail with a validation error,
\* with no fallback, no default returned and no access_secret_version call.
C3_NonPositiveVersionFails ==
    (Returned(ThroughGet) /\ NonPositive(SelectedVersion)) =>
        /\ result.kind = "raise"
        /\ result.type = "ValueError"
        /\ vendor = <<>>

C3_Witness ==
    /\ Returned({"get_json"})
    /\ call.version = PyNone
    /\ EmbeddedVersion(call.secret) = PyStr(<<"0">>)
    /\ client.default_version = PyStr(LATEST)
    /\ call.default = PyNone
    /\ result = Raise("ValueError", "Version must be positive")
    /\ vendor = <<>>

\* C3 as claimed: the same of every secret retrieval, get_path included, for
\* which the selected version is the one written in its path.
C3_Original ==
    LET selected == IF call.method = "get_path" THEN EmbeddedVersion(call.secret)
                    ELSE SelectedVersion
    IN  (Returned(Retrievals) /\ selected # PyNone /\ NonPositive(selected)) =>
            /\ result.kind = "raise"
            /\ result.type = "ValueError"
            /\ vendor = <<>>

\* the validation failures of Client.get and Client.get_path
ValidationFails ==
    \/ call.as_json /\ call.as_bytes
    \/ /\ call.method \in ThroughGet
       /\ LET n == _normalize_secret_path(call.secret, client.project_id)
          IN  \/ ~n.ok
              \/ ~_validate_version(SelectedVersion).ok
              \/ ~_validate_project_id(n.val[1]).ok
              \/ ~_validate_secret_id(n.val[2]).ok
    \/ call.method = "get_path" /\ ~StartsWith(call.secret, PROJECTS_SLASH)

\* C7: in Client.get and Client.get_path every validation failure is raised
\* before access_secret_version is called: a failing validation ends the call
\* in a ValueError, and a call that ends in a validation error (a ValueError
\* of the client's own checks, not the decoding errors of a fetched payload)
\* has made no vendor call.
C7_ValidationBeforeFetch ==
    Returned(Retrievals) =>
        /\ ValidationFails => (result.kind = "raise" /\ result.type = "ValueError")
        /\ (result.kind = "raise" /\ result.type = "ValueError") => vendor = <<>>

C7_Witness ==
    /\ Returned({"get_path"})
    /\ StartsWith(call.secret, PROJECTS_SLASH)
    /\ call.as_json /\ call.as_bytes
    /\ result = Raise("ValueError", "Cannot specify both as_json and as_bytes")
    /\ vendor = <<>>

\* the first segment of index >= from that is "versions" and has a successor
RECURSIVE VersionsAt(_, _)
VersionsAt(parts, from) ==
    IF from >= Len(parts) THEN 0
    ELSE IF parts[from] = VERSIONS THEN from
    ELSE VersionsAt(parts, from + 1)

ResolverCall == pc = "returned" /\ call.method = "_normalize_secret_path"

\* rules 2 and 3 of the resolver, and the failures of rule 1
ResolverOtherRules ==
    LET id == call.identifier
        parts == Split(id, SLASH)
        slash == Find(id, SLASH)
    IN  IF StartsWith(id, PROJECTS_SLASH) THEN
            IF Len(parts) < 4 \/ parts[3] # SECRETS
            THEN result.kind = "raise" /\ result.type = "ValueError"
            ELSE /\ result.kind = "return"
                 /\ result.val[1] = parts[2]
                 /\ result.val[2] = parts[4]
        ELSE IF slash # 0 THEN
            IF slash = 1 \/ slash = Len(id)
            THEN result.kind = "raise" /\ result.type = "ValueError"
            ELSE result = Return(<<SubSeq(id, 1, slash - 1),
                                   SubSeq(id, slash + 1, Len(id)), PyNone>>)
        ELSE result = Return(<<call.project_id, id, PyNone>>)

\* C8 as amended: the three rules in priority order, the version of rule 1
\* being the sixth segment when the fifth segment is "versions", and None
\* otherwise; default_project enters the result under rule 3 only.
C8_Resolver ==
    ResolverCall =>
        /\ ResolverOtherRules
        /\ (StartsWith(call.identifier, PROJECTS_SLASH) /\ result.kind = "return") =>
              result.val[3] = EmbeddedVersion(call.identifier)

C8_Witness ==
    /\ ResolverCall
    /\ call.identifier = FullPrefix \o <<"/","2","/">> \o VERSIONS \o <<"/","2">>
    /\ result = Return(<<P1, S1, PyNone>>)

\* C8 as claimed: the version of rule 1 is the segment after a "versions"
\* segment that follows the secret, and None when there is none (stated of
\* the paths whose segments are all non-empty).
C8_Original ==
    ResolverCall =>
        /\ ResolverOtherRules
        /\ LET parts == Split(call.identifier, SLASH)
               at == VersionsAt(parts, 5)
           IN  (/\ StartsWith(call.identifier, PROJECTS_SLASH)
                /\ result.kind = "return"
                /\ \A i \in 1..Len(parts) : Len(parts[i]) > 0) =>
                   result.val[3] = IF at = 0 THEN PyNone ELSE PyStr(parts[at + 1])

----------------------------------------------------------------------------
(* Properties of get_many *)

Iterable(secrets) == secrets.t \in {"dict", "list", "tuple", "str"}

\* the entries of a get_many input in its iteration order, as <<alias, spec>>:
\* the items of a mapping, and each element of a sequence under its own name
ManyEntries(secrets) ==
    IF secrets.t = "dict" THEN secrets.entries
    ELSE IF Iterable(secrets)
    THEN [i \in 1..Len(Elements(secrets)) |->
            <<IF Elements(secrets)[i].t = "str" THEN Elements(secrets)[i].s ELSE <<>>,
              Elements(secrets)[i]>>]
    ELSE <<>>

\* a malformed entry: in a sequence an element that is no string; in a mapping
\* a tuple whose length is not 2, whose name is no string or whose options
\* are no dict, a dict without 'secret' or with a 'secret' that is no string,
\* and a spec of any other type
Malformed(secrets, spec) ==
    IF secrets.t # "dict" THEN spec.t # "str"
    ELSE CASE spec.t = "str" -> FALSE
           [] spec.t = "tuple" ->
                \/ Len(spec.xs) # 2
                \/ spec.xs[1].t # "str"
                \/ spec.xs[2].t # "dict"
           [] spec.t = "dict" ->
                \/ \A i \in 1..Len(spec.entries) : spec.entries[i][1] # SECRET
                \/ \E i \in 1..Len(spec.entries) :
                      spec.entries[i][1] = SECRET /\ spec.entries[i][2].t # "str"
           [] OTHER -> TRUE

\* the (secret id, options) pair of a well-formed entry
NormalizedPair(spec) ==
    CASE spec.t = "str" -> [secret |-> spec.s, options |-> <<>>]
      [] spec.t = "tuple" -> [secret |-> spec.xs[1].s, options |-> spec.xs[2].entries]
      [] spec.t = "dict" ->
            [secret |-> Lookup(spec.entries, SECRET, PyNone).s,
             options |-> SelectSeq(spec.entries, LAMBDA e : e[1] # SECRET)]

\* what the single-fetch get does for the i-th entry of the call, the service
\* answering with the i-th of its answers; a malformed entry raises unfetched
EntryGet(i) ==
    LET spec == ManyEntries(call.secrets)[i][2]
    IN  IF Malformed(call.secrets, spec) THEN Ended(Raise("Malformed", "entry"), <<>>)
        ELSE Client_get_kwargs(client, NormalizedPair(spec).secret,
                               NormalizedPair(spec).options, call.outcomes[i])
EntryRaises(i) == EntryGet(i).result.kind = "raise"
FirstRaising ==
    LET n == Len(ManyEntries(call.secrets))
    IN  IF \E i \in 1..n : EntryRaises(i)
        THEN CHOOSE i \in 1..n : EntryRaises(i) /\ \A j \in 1..(i - 1) : ~EntryRaises(j)
        ELSE n + 1

\* C17: a get_many call that returns gives a dict with one key per alias, in
\* the order the aliases first occur, and under each alias the value the
\* single-fetch get returns for the entry's normalized (secret id, options)
\* pair, given the answer the service gave to that entry's fetch; a name that
\* occurs twice in a sequence holds the value of its last occurrence.
C17_ManyAsGet ==
    (Returned({"get_many"}) /\ result.kind = "return") =>
        LET es == ManyEntries(call.secrets)
            out == result.val.entries
            last == {i \in 1..Len(es) : \A j \in (i + 1)..Len(es) : es[j][1] # es[i][1]}
        IN  /\ result.val.t = "dict"
            /\ Len(vendor) = Len(es)
            /\ Len(out) = Cardinality(last)
            /\ \A i \in 1..Len(es) :
                  LET g == EntryGet(i)
                  IN  /\ g.result.kind = "return"
                      /\ g.vendor = <<vendor[i]>>
                      /\ i \in last =>
                            \E k \in 1..Len(out) : out[k] = <<es[i][1], g.result.val>>
            /\ \A k, m \in 1..Len(out) :
                  k < m => \E i, j \in 1..Len(es) :
                              /\ i < j
                              /\ es[i][1] = out[k][1]
                              /\ es[j][1] = out[m][1]
                              /\ \A h \in 1..(i - 1) : es[h][1] # es[i][1]
                              /\ \A h \in 1..(j - 1) : es[h][1] # es[j][1]

\* get_many({"a": "s", "b": ("s", {"default": "x"})}) with the first fetch
\* answered and the second not found
C17_Witness ==
    /\ Returned({"get_many"})
    /\ call.secrets =
          PyMapping(<< <<<<"a">>, PyStr(S1)>>,
                       <<<<"b">>, PyTuple(<<PyStr(S1),
                                            PyMapping(<< <<DEFAULT, PyStr(<<"x">>)>> >>)>>)>> >>)
    /\ Len(vendor) = 2
    /\ vendor[1].outcome = [kind |-> "payload", data |-> <<49, 50>>]
    /\ vendor[2].outcome = [kind |-> "NotFound"]
    /\ result = Return(PyMapping(<< <<<<"a">>, PyStr(<<"1","2">>)>>,
                                    <<<<"b">>, PyStr(<<"x">>)>> >>))

\* C18: the fetches of a get_many call are those of its entries in iteration
\* order, one for each entry up to the first entry that raises: the k-th call
\* in the log is the fetch the k-th entry makes, no entry after the first
\* raising one is fetched, and the call then raises that entry's error and
\* returns nothing; when no entry raises every entry is fetched exactly once.
C18_OneAtATime ==
    (Returned({"get_many"}) /\ Iterable(call.secrets)) =>
        LET n == Len(ManyEntries(call.secrets))
            f == FirstRaising
        IN  /\ \A k \in 1..Len(vendor) :
                  /\ k <= n
                  /\ k <= f
                  /\ EntryGet(k).vendor = <<vendor[k]>>
            /\ \A k \in 1..(f - 1) : Len(vendor) >= k
            /\ IF f <= n
               THEN /\ result.kind = "raise"
                    /\ ~Malformed(call.secrets, ManyEntries(call.secrets)[f][2]) =>
                          result = EntryGet(f).result
                    /\ Len(vendor) = f - 1 + Len(EntryGet(f).vendor)
               ELSE /\ result.kind = "return"
                    /\ Len(vendor) = n

\* a list of two names whose second fetch is refused: both fetched in order,
\* the error of the second is the error of the call
C18_Witness ==
    /\ Returned({"get_many"})
    /\ call.secrets = PyList(<<PyStr(T1), PyStr(S1)>>)
    /\ Len(vendor) = 2
    /\ vendor[1].name = ResourceName(client.project_id, T1, LATEST)
    /\ vendor[1].outcome = [kind |-> "payload", data |-> <<49, 50>>]
    /\ vendor[2].name = ResourceName(client.project_id, S1, LATEST)
    /\ vendor[2].outcome = [kind |-> "PermissionDenied"]
    /\ result = Raise("PermissionDenied", "vendor")

\* C19 as claimed: a get_many call whose input holds a malformed entry raises
\* a ValueError or TypeError and makes no access_secret_version call at all.
C19_Original ==
    (Returned({"get_many"})
        /\ \E i \in 1..Len(ManyEntries(call.secrets)) :
              Malformed(call.secrets, ManyEntries(call.secrets)[i][2])) =>
        /\ result.kind = "raise"
        /\ result.type \in {"ValueError", "TypeError"}
        /\ vendor = <<>>

----------------------------------------------------------------------------
(* Properties of the re-fetch specification *)

\* the call passes the validation of lines 122-135
Validated(c) ==
    /\ ~(c.as_json /\ c.as_bytes)
    /\ Client_get_name(client, c.secret, c.version).ok

\* what call c yields when access_secret_version answers a
FromAnswer(c, a) ==
    IF a.kind = "NotFound" THEN
        IF c.default = UNSET THEN Raise("NotFound", "404") ELSE Return(c.default)
    ELSE IF c.as_bytes THEN Return(PyBytes(a.data))
    ELSE LET text == Decode(a.data, client.default_encoding)
         IN  IF ~text.ok THEN Raise(text.type, text.msg)
             ELSE IF ~c.as_json THEN Return(PyStr(text.val))
             ELSE LET j == JsonLoads(text.val)
                  IN  IF j.ok THEN Return(j.val) ELSE Raise(j.type, j.msg)

\* C20: secret values are never cached.  In every step of a sequence of
\* retrievals on one client the client itself stays as constructed, and a
\* step that is a retrieval (the service's secret is not what changes) makes,
\* when the call passes validation, exactly one access_secret_version call,
\* answered from what the service holds now, and yields what that answer
\* alone determines; a call that fails validation makes no call.
C20_NeverCached ==
    [][/\ client' = client
       /\ (remote' = remote) =>
            IF Validated(call')
            THEN /\ Len(vendor') = 1
                 /\ vendor'[1].outcome = Answer(remote)
                 /\ result' = FromAnswer(call', Answer(remote))
            ELSE /\ vendor' = <<>>
                 /\ result'.kind = "raise"]_vars

\* the same secret read twice with a new version added in between: "12"
\* first, then the empty text the service holds now
C20_Witness ==
    /\ pc = "returned"
    /\ call.method = "get"
    /\ call.secret = S1
    /\ call.previous = [secret |-> S1, result |-> Return(PyStr(<<"1","2">>))]
    /\ remote = [t |-> "secret", payload |-> <<>>]
    /\ Len(vendor) = 1
    /\ vendor[1].outcome = [kind |-> "payload", data |-> <<>>]
    /\ result = Return(PyStr(<<>>))

----------------------------------------------------------------------------
(* The form of the resource names sent to the service *)

\* the decimal digits of an integer >= 1
PositiveDecimal(v) ==
    /\ Len(v) > 0
    /\ \A i \in 1..Len(v) : v[i] \in Digit09
    /\ IntOfDigits(v) >= 1

\* projects/<P>/secrets/<S>/versions/<V>, P and S passing their validation
WellFormedName(name) ==
    LET segs == Split(name, SLASH)
    IN  /\ Len(segs) = 6
        /\ segs[1] = <<"p","r","o","j","e","c","t","s">>
        /\ segs[3] = SECRETS
        /\ segs[5] = VERSIONS
        /\ _validate_project_id(segs[2]).ok
        /\ _validate_secret_id(segs[4]).ok
        /\ \A i \in 1..Len(segs[4]) : segs[4][i] # "."
        /\ \/ segs[6] \in _VERSION_KEYWORDS
           \/ PositiveDecimal(segs[6])

\* C30 as the claim states it: every name that a retrieval through Client.get
\* passes to access_secret_version is projects/<P>/secrets/<S>/versions/<V>
\* with P a valid project id, S a valid secret id and V one of latest,
\* latest:enabled and the decimal digits of an integer >= 1.
C30_Original ==
    Returned(ThroughGet) =>
        \A i \in 1..Len(vendor) :
            vendor[i].api = "access_secret_version" => WellFormedName(vendor[i].name)

----------------------------------------------------------------------------
(* src/src/gcpeasy/bq/validation.py *)

IdentifierMaxLen == 1024

PROJECT == <<"p","r","o","j","e","c","t">>

\* The characters outside ASCII that [a-z] matches under re.IGNORECASE, as
\* tokens: KELVIN SIGN (k), LATIN SMALL LETTER LONG S (s), LATIN CAPITAL
\* LETTER I WITH DOT ABOVE and LATIN SMALL LETTER DOTLESS I (i).
FoldsToAZ == {"U+212A", "U+017F", "U+0130", "U+0131"}

\* re.match(r'^[a-z][a-z0-9\-\'_]*$', s, re.IGNORECASE)
ProjectIdentifierPattern(s) ==
    \E c \in DollarCores(s) :
        /\ Len(c) >= 1
        /\ c[1] \in LowerAZ \cup UpperAZ \cup FoldsToAZ
        /\ \A i \in 2..Len(c) : c[i] \in Alnum \cup FoldsToAZ \cup {"-", "'", "_"}

\* re.match(r'^[a-zA-Z_][a-zA-Z0-9_]*$', s)
GenericIdentifierPattern(s) ==
    \E c \in DollarCores(s) :
        /\ Len(c) >= 1
        /\ c[1] \in LowerAZ \cup UpperAZ \cup {"_"}
        /\ \A i \in 2..Len(c) : c[i] \in Alnum \cup {"_"}

validate_identifier(identifier, name) ==
    IF Len(identifier) = 0 THEN Err("ValueError", "cannot be empty")
    ELSE IF Len(identifier) > IdentifierMaxLen
    THEN Err("ValueError", "cannot exceed 1024 characters")
    ELSE IF Contains(Lower(name), PROJECT) THEN
        IF ProjectIdentifierPattern(identifier) THEN Ok(identifier)
        ELSE Err("ValueError", "Invalid project identifier")
    ELSE IF GenericIdentifierPattern(identifier) THEN Ok(identifier)
    ELSE Err("ValueError", "Invalid identifier")

----------------------------------------------------------------------------
(* src/src/gcpeasy/bq: the handles of client.py, dataset.py and table.py *)

DOT == <<".">>
BACKTICK == <<"U+0060">>

\* bq Client.__init__: project_id is the vendor client's project, location and
\* the default query job config are stored as given
BqClient_init(project_id, location, default_query_job_config) ==
    [project_id |-> project_id, location |-> location,
     default_query_job_config |-> default_query_job_config]

\* Dataset.__init__ stores its arguments
Dataset_init(dataset_id, project_id) ==
    [t |-> "Dataset", dataset_id |-> dataset_id, project_id |-> project_id]

\* Client.dataset
BqClient_dataset(self, dataset_id) == Dataset_init(dataset_id, self.project_id)

\* Dataset.id
Dataset_id(self) == self.project_id \o DOT \o self.dataset_id

\* Table.__init__ stores its arguments
Table_init(table_id, dataset_id, project_id) ==
    [t |-> "Table", table_id |-> table_id, dataset_id |-> dataset_id,
     project_id |-> project_id]

\* Dataset.table
Dataset_table(self, table_id) == Table_init(table_id, self.dataset_id, self.project_id)

\* Table.id
Table_id(self) == self.project_id \o DOT \o self.dataset_id \o DOT \o self.table_id

\* One call of the vendor's BigQuery client or of a job it returned, as the
\* log keeps it: the method, its arguments, and how the remote service
\* answered (a returned value or a raised error).
VendorCall(api, args, outcome) == [api |-> api, args |-> args, outcome |-> outcome]

\* bool(v) of None, an int, a bool, a str, bytes, a list, a tuple, a dict and
\* a Path (an object without __bool__ and __len__); bool() of a DataFrame
\* raises and no such argument is drawn
Truthy(v) ==
    CASE v.t = "None" -> FALSE
      [] v.t = "int" -> v.i # 0
      [] v.t = "bool" -> v.b
      [] v.t = "str" -> Len(v.s) > 0
      [] v.t = "bytes" -> Len(v.d) > 0
      [] v.t \in {"list", "tuple"} -> Len(v.xs) > 0
      [] v.t = "dict" -> IF "items" \in DOMAIN v THEN Len(v.items) > 0
                         ELSE Len(v.entries) > 0
      [] v.t = "Path" -> TRUE
\* str(v) of the Python values an f-string interpolates
Format(v) ==
    CASE v.t = "None" -> <<"N","o","n","e">>
      [] v.t = "int" -> IntToStr(v.i)
      [] v.t = "bool" -> BoolToStr(v.b)
      [] v.t = "str" -> v.s

SELECT_FROM == <<"S","E","L","E","C","T"," ","*"," ","F","R","O","M"," ">>
LIMIT == <<" ","L","I","M","I","T"," ">>

\* Table.read: the query text is built by interpolation and goes to the
\* vendor client's query() with no job config; the job's to_dataframe() follows
Table_read(self, max_results, env) ==
    LET query == SELECT_FROM \o BACKTICK \o Table_id(self) \o BACKTICK
                   \o (IF Truthy(max_results) THEN LIMIT \o Format(max_results)
                       ELSE <<>>)
        submit == VendorCall("query", [query |-> query, job_config |-> PyNone],
                             env.submit)
        fetch == VendorCall("QueryJob.to_dataframe", [job |-> env.submit.val], env.wait)
    IN  IF env.submit.kind = "raise" THEN Ended(env.submit, <<submit>>)
        ELSE Ended(env.wait, <<submit, fetch>>)

----------------------------------------------------------------------------
(* src/src/gcpeasy/bq/client.py: Client.query.  A QueryJobConfig is an      *)
(* object: the caller and the client may hold the same one, so the objects  *)
(* live in a store indexed by identity and are passed around as references. *)

Ref(id) == [t |-> "ref", id |-> id]

\* bigquery.QueryJobConfig(): query_parameters reads [] until it is set
QueryJobConfig ==
    [t |-> "QueryJobConfig", query_parameters |-> <<>>, maximum_bytes_billed |-> PyNone]

\* bigquery.ScalarQueryParameter(name, type_, value)
ScalarQueryParameter(name, type_, value) ==
    [t |-> "ScalarQueryParameter", name |-> name, type_ |-> type_, value |-> value]

\* lines 262-283; bool is tested before int
_infer_param_type(value) ==
    CASE value.t = "bool" -> <<"B","O","O","L">>
      [] value.t = "int" -> <<"I","N","T","6","4">>
      [] value.t = "float" -> <<"F","L","O","A","T","6","4">>
      [] value.t = "str" -> <<"S","T","R","I","N","G">>
      [] value.t = "bytes" -> <<"B","Y","T","E","S">>
      [] OTHER -> <<"S","T","R","I","N","G">>

\* lines 99-102: one ScalarQueryParameter per item of params, in order
QueryParameters(params) ==
    [i \in 1..Len(params.items) |->
        ScalarQueryParameter(params.items[i][1], _infer_param_type(params.items[i][2]),
                             params.items[i][2])]

\* lines 92-111.  objs are the QueryJobConfig objects alive, by identity;
\* job_config and the client's default are None or a reference to one of
\* them, and an object is truthy.  The assignment of line 99 is made on the
\* object config refers to; the vendor is handed that object, recorded with
\* the settings it has at the call.
BqClient_query(self, objs, query, params, job_config, to_dataframe, env) ==
    LET config == IF job_config # PyNone THEN job_config
                  ELSE self.default_query_job_config
        objs2 == IF Truthy(params) /\ config # PyNone
                 THEN [objs EXCEPT ![config.id].query_parameters = QueryParameters(params)]
                 ELSE objs
        sent == IF config # PyNone THEN objs2[config.id]
                ELSE IF Truthy(params)
                THEN [QueryJobConfig EXCEPT !.query_parameters = QueryParameters(params)]
                ELSE PyNone
        submit == VendorCall("query", [query |-> query, job_config |-> sent], env.submit)
        fetch == VendorCall(IF to_dataframe THEN "QueryJob.to_dataframe"
                            ELSE "QueryJob.result",
                            [job |-> env.submit.val], env.wait)
    IN  [objs |-> objs2,
         result |-> IF env.submit.kind = "raise" THEN env.submit ELSE env.wait,
         vendor |-> IF env.submit.kind = "raise" THEN <<submit>> ELSE <<submit, fetch>>]

----------------------------------------------------------------------------
(* src/src/gcpeasy/bq/schema.py *)

type_map ==
    << <<<<"I","N","T","E","G","E","R">>, <<"I","N","T","6","4">>>>,
       <<<<"I","N","T">>, <<"I","N","T","6","4">>>>,
       <<<<"B","I","G","I","N","T">>, <<"I","N","T","6","4">>>>,
       <<<<"F","L","O","A","T">>, <<"F","L","O","A","T","6","4">>>>,
       <<<<"D","O","U","B","L","E">>, <<"F","L","O","A","T","6","4">>>>,
       <<<<"B","O","O","L">>, <<"B","O","O","L","E","A","N">>>>,
       <<<<"B","Y","T","E","S">>, <<"B","Y","T","E","S">>>>,
       <<<<"S","T","R","I","N","G">>, <<"S","T","R","I","N","G">>>>,
       <<<<"T","E","X","T">>, <<"S","T","R","I","N","G">>>>,
       <<<<"V","A","R","C","H","A","R">>, <<"S","T","R","I","N","G">>>>,
       <<<<"D","A","T","E">>, <<"D","A","T","E">>>>,
       <<<<"D","A","T","E","T","I","M","E">>,
          <<"D","A","T","E","T","I","M","E">>>>,
       <<<<"T","I","M","E">>, <<"T","I","M","E">>>>,
       <<<<"T","I","M","E","S","T","A","M","P">>,
          <<"T","I","M","E","S","T","A","M","P">>>>,
       <<<<"N","U","M","E","R","I","C">>, <<"N","U","M","E","R","I","C">>>>,
       <<<<"B","I","G","N","U","M","E","R","I","C">>,
          <<"B","I","G","N","U","M","E","R","I","C">>>>,
       <<<<"G","E","O","G","R","A","P","H","Y">>,
          <<"G","E","O","G","R","A","P","H","Y">>>>,
       <<<<"J","S","O","N">>, <<"J","S","O","N">>>>,
       <<<<"A","R","R","A","Y">>, <<"A","R","R","A","Y">>>>,
       <<<<"S","T","R","U","C","T">>, <<"S","T","R","U","C","T">>>> >>

\* d.get(key, default) of a dict kept as <<key, value>> pairs
DictGet(items, key, default) ==
    IF \E i \in 1..Len(items) : items[i][1] = key
    THEN items[CHOOSE i \in 1..Len(items) : items[i][1] = key][2]
    ELSE default

\* _normalize_type_name looking the string up as given, not uppercased
_normalize_type_name_AsGiven(type_str) == DictGet(type_map, type_str, type_str)

_normalize_type_name(type_str) ==
    LET type_upper == Upper(type_str)
    IN  DictGet(type_map, type_upper, type_upper)

\* bigquery.SchemaField(name, field_type)
SchemaField(name, field_type) == [name |-> name, field_type |-> field_type]

dict_to_schema_fields(schema_dict) ==
    PyList([i \in 1..Len(schema_dict.items) |->
        SchemaField(schema_dict.items[i][1],
                    _normalize_type_name(schema_dict.items[i][2]))])

_pandas_dtype_to_bigquery_type(dtype_str) ==
    IF StartsWith(dtype_str, <<"i","n","t">>) THEN <<"I","N","T","6","4">>
    ELSE IF StartsWith(dtype_str, <<"f","l","o","a","t">>) THEN <<"F","L","O","A","T","6","4">>
    ELSE IF dtype_str = <<"b","o","o","l">> THEN <<"B","O","O","L","E","A","N">>
    ELSE IF dtype_str = <<"o","b","j","e","c","t">> THEN <<"S","T","R","I","N","G">>
    ELSE IF StartsWith(dtype_str, <<"d","a","t","e","t","i","m","e","6","4">>) THEN <<"T","I","M","E","S","T","A","M","P">>
    ELSE IF dtype_str = <<"d","a","t","e">> THEN <<"D","A","T","E">>
    ELSE IF StartsWith(dtype_str, <<"t","i","m","e","d","e","l","t","a">>) THEN <<"T","I","M","E">>
    ELSE <<"S","T","R","I","N","G">>

\* dataframe_to_schema_fields keeping one field per column name
RECURSIVE UniqueFields(_, _, _)
UniqueFields(cols, i, acc) ==
    IF i > Len(cols) THEN acc
    ELSE IF \E j \in 1..Len(acc) : acc[j].name = Format(cols[i].name)
    THEN UniqueFields(cols, i + 1, acc)
    ELSE UniqueFields(cols, i + 1,
             Append(acc, SchemaField(Format(cols[i].name),
                                     _pandas_dtype_to_bigquery_type(cols[i].dtype))))
dataframe_to_schema_fields_Unique(df) == PyList(UniqueFields(df.cols, 1, <<>>))

\* a frame is its columns in order, each a label and the str() of its dtype
dataframe_to_schema_fields(df) ==
    PyList([i \in 1..Len(df.cols) |->
        SchemaField(Format(df.cols[i].name),
                    _pandas_dtype_to_bigquery_type(df.cols[i].dtype))])

----------------------------------------------------------------------------
(* src/src/gcpeasy/bq/file_utils.py *)

CSV == <<"C","S","V">>
NEWLINE_DELIMITED_JSON == <<"N","E","W","L","I","N","E","_","D","E","L","I","M","I","T","E","D","_","J","S","O","N">>
PARQUET == <<"P","A","R","Q","U","E","T">>
AVRO == <<"A","V","R","O">>
ORC == <<"O","R","C">>

\* pathlib on POSIX, of the path Path(s): its root, its parts after the root
\* (empty and "." components are dropped), str(), name and suffix
PathRoot(s) ==
    IF StartsWith(s, <<"/","/">>) /\ ~StartsWith(s, <<"/","/","/">>) THEN <<"/","/">>
    ELSE IF StartsWith(s, SLASH) THEN SLASH
    ELSE <<>>
PathParts(s) == SelectSeq(Split(s, SLASH), LAMBDA x : Len(x) > 0 /\ x # DOT)
PathStr(s) ==
    IF Len(PathRoot(s)) = 0 /\ Len(PathParts(s)) = 0 THEN DOT
    ELSE PathRoot(s) \o JoinSlash(PathParts(s))
PathName(s) ==
    IF Len(PathParts(s)) = 0 THEN <<>> ELSE PathParts(s)[Len(PathParts(s))]
\* name.rfind("."), as a 1-based index, 0 when there is no dot
RECURSIVE RFindDot(_, _)
RFindDot(name, i) ==
    IF i = 0 THEN 0 ELSE IF name[i] = "." THEN i ELSE RFindDot(name, i - 1)
PathSuffix(s) ==
    LET name == PathName(s)
        i == RFindDot(name, Len(name))
    IN  IF 1 < i /\ i < Len(name) THEN SubSeq(name, i, Len(name)) ELSE <<>>

format_map ==
    << <<<<".","c","s","v">>, CSV>>,
       <<<<".","j","s","o","n">>, NEWLINE_DELIMITED_JSON>>,
       <<<<".","j","s","o","n","l">>, NEWLINE_DELIMITED_JSON>>,
       <<<<".","n","d","j","s","o","n">>, NEWLINE_DELIMITED_JSON>>,
       <<<<".","p","a","r","q","u","e","t">>, PARQUET>>,
       <<<<".","a","v","r","o">>, AVRO>>,
       <<<<".","o","r","c">>, ORC>> >>

\* ', '.join(format_map.keys())
RECURSIVE JoinKeys(_, _)
JoinKeys(items, i) ==
    IF i > Len(items) THEN <<>>
    ELSE IF i = Len(items) THEN items[i][1]
    ELSE items[i][1] \o <<","," ">> \o JoinKeys(items, i + 1)

\* detect_source_format with the suffix looked up as written, not lowercased
detect_source_format_CaseSensitive(s) ==
    LET extension == PathSuffix(s)
    IN  IF \E i \in 1..Len(format_map) : format_map[i][1] = extension
        THEN Ok(DictGet(format_map, extension, <<>>))
        ELSE [ok |-> FALSE, type |-> "ValueError", msg |-> "Unsupported file format",
              text |-> <<"U","n","s","u","p","p","o","r","t","e","d"," ","f","i","l","e"," ","f","o","r","m","a","t",":"," ">> \o extension
                         \o <<"."," ","S","u","p","p","o","r","t","e","d"," ","f","o","r","m","a","t","s",":"," ">> \o JoinKeys(format_map, 1)]

\* detect_source_format(file_path), file_path being Path(s); `text` is the
\* message of the ValueError
detect_source_format(s) ==
    LET extension == Lower(PathSuffix(s))
    IN  IF \E i \in 1..Len(format_map) : format_map[i][1] = extension
        THEN Ok(DictGet(format_map, extension, <<>>))
        ELSE [ok |-> FALSE, type |-> "ValueError", msg |-> "Unsupported file format",
              text |-> <<"U","n","s","u","p","p","o","r","t","e","d"," ","f","i","l","e"," ","f","o","r","m","a","t",":"," ">> \o extension
                         \o <<"."," ","S","u","p","p","o","r","t","e","d"," ","f","o","r","m","a","t","s",":"," ">> \o JoinKeys(format_map, 1)]

\* bigquery.LoadJobConfig: a property that was never set reads None
LoadJobConfig(source_format, write_disposition) ==
    [t |-> "LoadJobConfig", source_format |-> source_format,
     write_disposition |-> write_disposition, schema |-> PyNone, autodetect |-> PyNone,
     skip_leading_rows |-> PyNone, field_delimiter |-> PyNone]

\* create_load_job_config testing skip_leading_rows for truth and not for None
create_load_job_config_Truthy(source_format, schema, write_disposition, skip_leading_rows, field_delimiter, autodetect) ==
    LET c0 == LoadJobConfig(source_format, write_disposition)
        c1 == IF schema # PyNone /\ Len(schema.xs) > 0 THEN [c0 EXCEPT !.schema = schema]
              ELSE IF autodetect THEN [c0 EXCEPT !.autodetect = PyBool(TRUE)]
              ELSE c0
    IN  IF source_format # PyStr(CSV) THEN c1
        ELSE [c1 EXCEPT
                !.skip_leading_rows =
                    IF skip_leading_rows \notin {PyNone, PyInt(0)} THEN skip_leading_rows
                    ELSE PyInt(1),
                !.field_delimiter =
                    IF field_delimiter # PyNone THEN field_delimiter ELSE PyNone]

create_load_job_config(source_format, schema, write_disposition, skip_leading_rows, field_delimiter, autodetect) ==
    LET c0 == LoadJobConfig(source_format, write_disposition)
        c1 == IF schema # PyNone /\ Len(schema.xs) > 0 THEN [c0 EXCEPT !.schema = schema]
              ELSE IF autodetect THEN [c0 EXCEPT !.autodetect = PyBool(TRUE)]
              ELSE c0
    IN  IF source_format # PyStr(CSV) THEN c1
        ELSE [c1 EXCEPT
                !.skip_leading_rows =
                    IF skip_leading_rows # PyNone THEN skip_leading_rows ELSE PyInt(1),
                !.field_delimiter =
                    IF field_delimiter # PyNone THEN field_delimiter ELSE PyNone]

----------------------------------------------------------------------------
(* src/src/gcpeasy/bq/table.py: Table.write, insert, to_gcs, copy *)

GS == <<"g","s",":","/","/">>

gcs_formats ==
    << <<<<".","c","s","v">>, CSV>>,
       <<<<".","j","s","o","n">>, NEWLINE_DELIMITED_JSON>>,
       <<<<".","j","s","o","n","l">>, NEWLINE_DELIMITED_JSON>>,
       <<<<".","n","d","j","s","o","n">>, NEWLINE_DELIMITED_JSON>>,
       <<<<".","p","a","r","q","u","e","t">>, PARQUET>>,
       <<<<".","a","v","r","o">>, AVRO>>,
       <<<<".","o","r","c">>, ORC>> >>

\* lines 110-121: the format of the first extension, in the dict's order,
\* that the URI ends with
GcsSourceFormat(data_str) ==
    LET hits == {i \in 1..Len(gcs_formats) : EndsWith(data_str, gcs_formats[i][1])}
    IN  IF hits = {} THEN Err("ValueError", "Cannot detect format from GCS URI")
        ELSE Ok(gcs_formats[CHOOSE i \in hits : \A j \in hits : i <= j][2])

\* Table.write(None) that creates the table whether or not a schema is given
Table_write_none_NoSchemaCheck(self, schema, env) ==
    LET fields == IF schema = PyNone THEN PyList(<<>>) ELSE dict_to_schema_fields(schema)
        create == VendorCall("create_table",
                      [table |-> Table_id(self), schema |-> fields, exists_ok |-> TRUE],
                      env.submit)
    IN  IF env.submit.kind = "raise" THEN Ended(env.submit, <<create>>)
        ELSE Ended(Return(PyNone), <<create>>)

\* lines 97-103: data is None
Table_write_none(self, schema, env) ==
    IF schema = PyNone
    THEN Ended(Raise("ValueError", "schema must be provided when data is None"), <<>>)
    ELSE
    LET create == VendorCall("create_table",
                      [table |-> Table_id(self), schema |-> dict_to_schema_fields(schema),
                       exists_ok |-> TRUE],
                      env.submit)
    IN  IF env.submit.kind = "raise" THEN Ended(env.submit, <<create>>)
        ELSE Ended(Return(PyNone), <<create>>)

\* the submitted load job, returned from without its result() being called
LoadAndWait_NoWait(submit, env) ==
    IF submit.outcome.kind = "raise" THEN Ended(submit.outcome, <<submit>>)
    ELSE Ended(Return(PyNone), <<submit>>)

\* load_job = self._client.load_table_from_...(...); load_job.result(); return
LoadAndWait(submit, env) ==
    IF submit.outcome.kind = "raise" THEN Ended(submit.outcome, <<submit>>)
    ELSE LET wait == VendorCall("LoadJob.result", [job |-> submit.outcome.val], env.wait)
         IN  IF env.wait.kind = "raise" THEN Ended(env.wait, <<submit, wait>>)
             ELSE Ended(Return(PyNone), <<submit, wait>>)

\* lines 108-143: str(data) starts with gs://
Table_write_uri(self, data_str, schema, write_disposition, source_format, skip_leading_rows, field_delimiter, env) ==
    LET detected == IF source_format = PyNone THEN GcsSourceFormat(data_str)
                    ELSE Ok(source_format.s)
    IN  IF ~detected.ok THEN Ended(Raise(detected.type, detected.msg), <<>>)
        ELSE
        LET schema_fields == IF schema # PyNone THEN dict_to_schema_fields(schema)
                             ELSE PyNone
            job_config == create_load_job_config(PyStr(detected.val), schema_fields,
                              write_disposition, skip_leading_rows, field_delimiter,
                              schema = PyNone)
        IN  LoadAndWait(
                VendorCall("load_table_from_uri",
                    [source |-> data_str, destination |-> Table_id(self),
                     job_config |-> job_config],
                    env.submit),
                env)

\* lines 145-171: a local file, s being the text of the path as the caller
\* wrote it; open() comes after the job config and before the load
Table_write_file(self, s, schema, write_disposition, source_format, skip_leading_rows, field_delimiter, env) ==
    LET detected == IF source_format = PyNone THEN detect_source_format(s)
                    ELSE Ok(source_format.s)
    IN  IF ~detected.ok THEN Ended(Raise(detected.type, detected.msg), <<>>)
        ELSE IF env.open.kind = "raise" THEN Ended(env.open, <<>>)
        ELSE
        LET schema_fields == IF schema # PyNone THEN dict_to_schema_fields(schema)
                             ELSE PyNone
            job_config == create_load_job_config(PyStr(detected.val), schema_fields,
                              write_disposition, skip_leading_rows, field_delimiter,
                              schema = PyNone)
        IN  LoadAndWait(
                VendorCall("load_table_from_file",
                    [source |-> PathStr(s), destination |-> Table_id(self),
                     job_config |-> job_config],
                    env.submit),
                env)

\* lines 173-188: a DataFrame, with a schema given the inferred one is ignored
Table_write_frame_AlwaysInfer(self, data, schema, write_disposition, env) ==
    LET job_config == [LoadJobConfig(PyNone, write_disposition)
                          EXCEPT !.schema = dataframe_to_schema_fields(data)]
    IN  LoadAndWait(
            VendorCall("load_table_from_dataframe",
                [source |-> data, destination |-> Table_id(self),
                 job_config |-> job_config],
                env.submit),
            env)

\* lines 173-188: a DataFrame
Table_write_frame(self, data, schema, write_disposition, env) ==
    LET schema_fields == IF schema # PyNone THEN dict_to_schema_fields(schema)
                         ELSE dataframe_to_schema_fields(data)
        job_config == [LoadJobConfig(PyNone, write_disposition)
                          EXCEPT !.schema = schema_fields]
    IN  LoadAndWait(
            VendorCall("load_table_from_dataframe",
                [source |-> data, destination |-> Table_id(self),
                 job_config |-> job_config],
                env.submit),
            env)

\* line 78: write_disposition = "WRITE_TRUNCATE" when the caller passes none
WRITE_TRUNCATE == <<"W","R","I","T","E","_","T","R","U","N","C","A","T","E">>
Default(arg, default) == IF arg = UNSET THEN default ELSE arg

\* Table.write: the dispatch on the type of data
Table_write(self, data, schema, write_disposition, source_format, skip_leading_rows, field_delimiter, env) ==
    IF data = PyNone THEN Table_write_none(self, schema, env)
    ELSE IF data.t \in {"str", "Path"} THEN
        LET data_str == IF data.t = "str" THEN data.s ELSE PathStr(data.s)
        IN  IF StartsWith(data_str, GS)
            THEN Table_write_uri(self, data_str, schema, write_disposition,
                                 source_format, skip_leading_rows, field_delimiter, env)
            ELSE Table_write_file(self, data.s, schema, write_disposition,
                                  source_format, skip_leading_rows, field_delimiter, env)
    ELSE IF data.t = "DataFrame"
    THEN Table_write_frame(self, data, schema, write_disposition, env)
    ELSE Ended(Raise("TypeError", "Unsupported data type"), <<>>)

\* client.py line 177: write_disposition = "WRITE_APPEND" when none is passed
WRITE_APPEND == <<"W","R","I","T","E","_","A","P","P","E","N","D">>

\* Client.load_data writing to the project named in a three-part table_id
BqClient_load_data_KeepProject(self, data, table_id, schema, source_format, write_disposition, skip_leading_rows, field_delimiter, env) ==
    LET parts == Split(table_id, DOT)
    IN  IF Len(parts) \notin {2, 3}
        THEN Ended(Raise("ValueError", "Invalid table_id format"), <<>>)
        ELSE Table_write(Table_init(parts[Len(parts)], parts[Len(parts) - 1],
                                    IF Len(parts) = 3 THEN parts[1] ELSE self.project_id),
                         data, schema, write_disposition, source_format,
                         skip_leading_rows, field_delimiter, env)

\* Client.load_data, lines 213-232
BqClient_load_data(self, data, table_id, schema, source_format, write_disposition, skip_leading_rows, field_delimiter, env) ==
    LET parts == Split(table_id, DOT)
    IN  IF Len(parts) \notin {2, 3}
        THEN Ended(Raise("ValueError", "Invalid table_id format"), <<>>)
        ELSE Table_write(Dataset_table(BqClient_dataset(self, parts[Len(parts) - 1]),
                                       parts[Len(parts)]),
                         data, schema, write_disposition, source_format,
                         skip_leading_rows, field_delimiter, env)

\* Table.insert
Table_insert(self, rows, ignore_unknown_values, skip_invalid_rows, env) ==
    Ended(env.submit,
          <<VendorCall("insert_rows_json",
                [table |-> Table_id(self), rows |-> rows,
                 ignore_unknown_values |-> ignore_unknown_values,
                 skip_invalid_rows |-> skip_invalid_rows],
                env.submit)>>)

\* bigquery.ExtractJobConfig with Table.to_gcs's assignments
ExtractJobConfig(export_format, compression, print_header, field_delimiter) ==
    [t |-> "ExtractJobConfig", destination_format |-> export_format,
     compression |-> compression,
     print_header |-> IF export_format = CSV THEN PyBool(print_header) ELSE PyNone,
     field_delimiter |-> IF export_format = CSV THEN PyStr(field_delimiter) ELSE PyNone]

\* Table.to_gcs
Table_to_gcs(self, destination_uri, export_format, compression, print_header, field_delimiter, env) ==
    Ended(env.submit,
          <<VendorCall("extract_table",
                [source |-> Table_id(self), destination_uris |-> destination_uri,
                 job_config |-> ExtractJobConfig(export_format, compression,
                                                 print_header, field_delimiter)],
                env.submit)>>)

\* Table.copy: the destination is a string, or anything with an id attribute
Table_copy(self, destination_table, write_disposition, env) ==
    LET dest_id == IF destination_table.t = "str" THEN Ok(destination_table.s)
                   ELSE IF destination_table.t = "Table" THEN Ok(Table_id(destination_table))
                   ELSE IF destination_table.t = "Dataset"
                   THEN Ok(Dataset_id(destination_table))
                   ELSE Err("AttributeError", "id")
    IN  IF ~dest_id.ok THEN Ended(Raise(dest_id.type, dest_id.msg), <<>>)
        ELSE Ended(env.submit,
                   <<VendorCall("copy_table",
                         [sources |-> Table_id(self), destination |-> dest_id.val,
                          job_config |-> [t |-> "CopyJobConfig",
                                          write_disposition |-> write_disposition]],
                         env.submit)>>)

----------------------------------------------------------------------------
(* src/src/gcpeasy/bq/dataset.py and table.py: exists, create, delete,     *)
(* update.  Each takes the handle and the answers of the vendor calls it   *)
(* makes, and gives the call's result and the vendor calls made.           *)

\* except exceptions.C: the raised type is C or a subclass of C
IsInstance(type, cls) ==
    \/ type = cls
    \/ <<type, cls>> \in {<<"AlreadyExists", "Conflict">>, <<"Aborted", "Conflict">>}

\* bigquery.Dataset(id) and bigquery.Table(id) as constructed: every property
\* that was not set reads None, labels an empty dict, schema an empty list
bigquery_Dataset(ref) ==
    [t |-> "bigquery.Dataset", ref |-> ref, location |-> PyNone,
     description |-> PyNone, default_table_expiration_ms |-> PyNone,
     labels |-> PyDict(<<>>)]
bigquery_Table(ref) ==
    [t |-> "bigquery.Table", ref |-> ref, schema |-> PyList(<<>>),
     description |-> PyNone, time_partitioning |-> PyNone,
     clustering_fields |-> PyNone, labels |-> PyDict(<<>>)]
TimePartitioning(field) == [t |-> "TimePartitioning", field |-> field]

\* exists() answering False to every error of the vendor
ExistsResult_AnyError(get) ==
    IF get.outcome.kind = "return" THEN Ended(Return(PyBool(TRUE)), <<get>>)
    ELSE Ended(Return(PyBool(FALSE)), <<get>>)

\* try: vendor call; return True / except NotFound: return False
ExistsResult(get) ==
    IF get.outcome.kind = "return" THEN Ended(Return(PyBool(TRUE)), <<get>>)
    ELSE IF IsInstance(get.outcome.type, "NotFound")
    THEN Ended(Return(PyBool(FALSE)), <<get>>)
    ELSE Ended(get.outcome, <<get>>)

Dataset_exists(self, outcome) ==
    ExistsResult(VendorCall("get_dataset", [dataset_ref |-> Dataset_id(self)], outcome))

Table_exists(self, outcome) ==
    ExistsResult(VendorCall("get_table", [table |-> Table_id(self)], outcome))

\* create with every Conflict swallowed, whatever exists_ok says
CreateResult_AlwaysOk(self, create, exists_ok) ==
    IF create.outcome.kind = "raise" /\ ~IsInstance(create.outcome.type, "Conflict")
    THEN Ended(create.outcome, <<create>>)
    ELSE Ended(Return(self), <<create>>)

\* try: vendor create / except Conflict: if not exists_ok: raise / return self
CreateResult(self, create, exists_ok) ==
    IF create.outcome.kind = "raise"
       /\ ~(IsInstance(create.outcome.type, "Conflict") /\ Truthy(exists_ok))
    THEN Ended(create.outcome, <<create>>)
    ELSE Ended(Return(self), <<create>>)

Dataset_create(self, location, description, default_table_expiration_ms, exists_ok, outcome) ==
    LET r0 == bigquery_Dataset(Dataset_id(self))
        r1 == IF Truthy(location) THEN [r0 EXCEPT !.location = location] ELSE r0
        r2 == IF Truthy(description) THEN [r1 EXCEPT !.description = description] ELSE r1
        dataset_ref ==
            IF Truthy(default_table_expiration_ms)
            THEN [r2 EXCEPT !.default_table_expiration_ms = default_table_expiration_ms]
            ELSE r2
    IN  CreateResult(self,
                     VendorCall("create_dataset", [dataset |-> dataset_ref], outcome),
                     exists_ok)

Table_create(self, schema, partitioning_field, clustering_fields, description, exists_ok, outcome) ==
    LET r0 == [bigquery_Table(Table_id(self)) EXCEPT !.schema = dict_to_schema_fields(schema)]
        r1 == IF Truthy(description) THEN [r0 EXCEPT !.description = description] ELSE r0
        r2 == IF Truthy(partitioning_field)
              THEN [r1 EXCEPT !.time_partitioning = TimePartitioning(partitioning_field)]
              ELSE r1
        table_ref ==
            IF Truthy(clustering_fields)
            THEN [r2 EXCEPT !.clustering_fields = clustering_fields]
            ELSE r2
    IN  CreateResult(self,
                     VendorCall("create_table", [table |-> table_ref], outcome),
                     exists_ok)

\* delete that hands the caller's not_found_ok on to the vendor, which then
\* answers a missing resource by returning
DeleteResult_VendorSwallows(delete, not_found_ok) ==
    LET sent == [delete EXCEPT
                    !.args.not_found_ok = Truthy(not_found_ok),
                    !.outcome = IF Truthy(not_found_ok) /\ delete.outcome.kind = "raise"
                                   /\ IsInstance(delete.outcome.type, "NotFound")
                                THEN Return(PyNone) ELSE delete.outcome]
    IN  IF sent.outcome.kind = "raise" THEN Ended(sent.outcome, <<sent>>)
        ELSE Ended(Return(PyNone), <<sent>>)

\* try: vendor delete / except NotFound: if not not_found_ok: raise
DeleteResult(delete, not_found_ok) ==
    IF delete.outcome.kind = "raise"
       /\ ~(IsInstance(delete.outcome.type, "NotFound") /\ Truthy(not_found_ok))
    THEN Ended(delete.outcome, <<delete>>)
    ELSE Ended(Return(PyNone), <<delete>>)

Dataset_delete(self, delete_contents, not_found_ok, outcome) ==
    DeleteResult(VendorCall("delete_dataset",
                     [dataset |-> Dataset_id(self), delete_contents |-> delete_contents,
                      not_found_ok |-> FALSE],
                     outcome),
                 not_found_ok)

Table_delete(self, not_found_ok, outcome) ==
    DeleteResult(VendorCall("delete_table",
                     [table |-> Table_id(self), not_found_ok |-> FALSE],
                     outcome),
                 not_found_ok)

\* [field for field, value in pairs if value is not None]
RECURSIVE FieldsToUpdate(_)
FieldsToUpdate(pairs) ==
    IF pairs = <<>> THEN <<>>
    ELSE (IF Head(pairs)[2] # PyNone THEN <<Head(pairs)[1]>> ELSE <<>>)
         \o FieldsToUpdate(Tail(pairs))

\* the update request sent even when no field is to be updated
SendUpdate_Always(self, api, fetch, resource, fields, env) ==
    LET update == VendorCall(api, [resource |-> resource, fields |-> fields], env.update)
    IN  IF env.update.kind = "raise" THEN Ended(env.update, <<fetch, update>>)
        ELSE Ended(Return(self), <<fetch, update>>)

\* if fields_to_update: vendor update(resource, fields_to_update) / return self
SendUpdate(self, api, fetch, resource, fields, env) ==
    IF fields = <<>> THEN Ended(Return(self), <<fetch>>)
    ELSE LET update == VendorCall(api, [resource |-> resource, fields |-> fields],
                                  env.update)
         IN  IF env.update.kind = "raise" THEN Ended(env.update, <<fetch, update>>)
             ELSE Ended(Return(self), <<fetch, update>>)

Dataset_update(self, description, labels, default_table_expiration_ms, env) ==
    LET fetch == VendorCall("get_dataset", [dataset_ref |-> Dataset_id(self)], env.fetch)
    IN  IF env.fetch.kind = "raise" THEN Ended(env.fetch, <<fetch>>)
        ELSE
        LET r0 == env.fetch.val
            r1 == IF description # PyNone THEN [r0 EXCEPT !.description = description]
                  ELSE r0
            r2 == IF labels # PyNone THEN [r1 EXCEPT !.labels = labels] ELSE r1
            dataset_ref ==
                IF default_table_expiration_ms # PyNone
                THEN [r2 EXCEPT !.default_table_expiration_ms = default_table_expiration_ms]
                ELSE r2
            fields_to_update ==
                FieldsToUpdate(<< <<<<"d","e","s","c","r","i","p","t","i","o","n">>, description>>,
                                  <<<<"l","a","b","e","l","s">>, labels>>,
                                  <<<<"d","e","f","a","u","l","t","_","t","a","b","l","e","_","e","x","p","i","r","a","t","i","o","n","_","m","s">>,
                                    default_table_expiration_ms>> >>)
        IN  SendUpdate(self, "update_dataset", fetch, dataset_ref, fields_to_update, env)

\* the schema of the update replaced by the new fields alone
Table_update_schema_Replace(fetched, schema) == dict_to_schema_fields(schema)

\* table_ref.schema = list(table_ref.schema) + new_fields
Table_update_schema(fetched, schema) ==
    PyList(fetched.xs \o dict_to_schema_fields(schema).xs)

Table_update(self, schema, description, labels, env) ==
    LET fetch == VendorCall("get_table", [table |-> Table_id(self)], env.fetch)
    IN  IF env.fetch.kind = "raise" THEN Ended(env.fetch, <<fetch>>)
        ELSE
        LET r0 == env.fetch.val
            r1 == IF schema # PyNone
                  THEN [r0 EXCEPT !.schema = Table_update_schema(r0.schema, schema)]
                  ELSE r0
            r2 == IF description # PyNone THEN [r1 EXCEPT !.description = description]
                  ELSE r1
            table_ref == IF labels # PyNone THEN [r2 EXCEPT !.labels = labels] ELSE r2
            fields_to_update ==
                FieldsToUpdate(<< <<<<"s","c","h","e","m","a">>, schema>>,
                                  <<<<"d","e","s","c","r","i","p","t","i","o","n">>, description>>,
                                  <<<<"l","a","b","e","l","s">>, labels>> >>)
        IN  SendUpdate(self, "update_table", fetch, table_ref, fields_to_update, env)

----------------------------------------------------------------------------
(* The inputs the BigQuery specification draws *)

MaxIdLen == 3          \* characters of an identifier given to validate_identifier

IdChars == {"a", "Z", "_", "7", "-", "'", "\n", " ", "U+212A", "U+0130"}
LongIds == {[i \in 1..n |-> "a"] : n \in {IdentifierMaxLen, IdentifierMaxLen + 1}}
IdInputs == SeqsUpTo(IdChars, MaxIdLen) \cup LongIds
IdNames ==
    { <<"i","d","e","n","t","i","f","i","e","r">>,
      <<"t","a","b","l","e","_","i","d">>,
      <<"d","a","t","a","s","e","t","_","i","d">>,
      <<"p","r","o","j","e","c","t","_","i","d">>,
      <<"P","r","o","j","e","c","t">> }

BqClients ==
    {BqClient_init(p, <<"E","U">>, PyNone) : p \in {<<"p","1">>, <<"m","y","-","p","r","o","j">>}}

\* valid, empty, breaking out of the backticks, ending in a newline, starting
\* with a digit
DatasetIds == {<<"d","s">>, <<>>, <<"d","U+0060",";">>, <<"d","\n">>}
TableIds == {<<"t">>, <<"1","t">>, <<"t","U+0060"," ","-","-">>}

Forbidden == Raise("Forbidden", "403")
QueryJob == [t |-> "QueryJob"]
LoadJob == [t |-> "LoadJob"]
ExtractJob == [t |-> "ExtractJob"]
CopyJob == [t |-> "CopyJob"]

\* what the outside answers during a call: open() of a local file, the vendor
\* client's method, and the wait on the job that method returned
Env(open, submit, wait) == [open |-> open, submit |-> submit, wait |-> wait]
ReadEnvs ==
    { Env(Return(PyNone), Return(QueryJob), Return(PyFrame(<<>>))),
      Env(Return(PyNone), Forbidden, Return(PyFrame(<<>>))),
      Env(Return(PyNone), Return(QueryJob), Raise("BadRequest", "400")) }
WriteEnvs ==
    { Env(Return(PyNone), Return(LoadJob), Return(LoadJob)),
      Env(Raise("FileNotFoundError", "open"), Return(LoadJob), Return(LoadJob)),
      Env(Return(PyNone), Forbidden, Return(LoadJob)),
      Env(Return(PyNone), Return(LoadJob), Raise("BadRequest", "400")) }
InsertEnvs ==
    { Env(Return(PyNone), Return(PyList(<<>>)), Return(PyNone)),
      Env(Return(PyNone), Return(PyList(<<PyDict(<<<<<<"i","n","d","e","x">>, <<"0">>>>>>)>>)),
          Return(PyNone)),
      Env(Return(PyNone), Forbidden, Return(PyNone)) }
ExtractEnvs ==
    { Env(Return(PyNone), Return(ExtractJob), Return(PyNone)),
      Env(Return(PyNone), Forbidden, Return(PyNone)) }
CopyEnvs ==
    { Env(Return(PyNone), Return(CopyJob), Return(PyNone)),
      Env(Return(PyNone), Forbidden, Return(PyNone)) }

MaxResultsInputs ==
    {PyNone, PyInt(0), PyInt(100), PyInt(7), PyStr(<<"1",";">>), PyBytes(<<>>)}

Frames ==
    { PyFrame(<<>>),
      PyFrame(<<[name |-> PyStr(<<"t","s">>), dtype |-> <<"d","a","t","e","t","i","m","e","6","4","[","n","s","]">>],
                [name |-> PyStr(<<"x">>), dtype |-> <<"f","l","o","a","t","3","2">>],
                [name |-> PyStr(<<"x">>), dtype |-> <<"c","a","t","e","g","o","r","y">>]>>),
      PyFrame(<<[name |-> PyStr(<<"a">>), dtype |-> <<"i","n","t","6","4">>],
                [name |-> PyInt(0), dtype |-> <<"o","b","j","e","c","t">>]>>) }
WriteData ==
    { PyNone,
      PyStr(<<"g","s",":","/","/","b","/","x",".","c","s","v">>),
      PyStr(<<"g","s",":","/","/","b","/","x",".","C","S","V">>),
      PyStr(<<"g","s",":","/","/","b","/","x">>),
      PyStr(<<"g","s",":","/","/","b","/",".","j","s","o","n","l">>),
      PyStr(<<"d",".","c","s","v">>), PyStr(<<"d",".","C","S","V">>),
      PyStr(<<"d",".","t","x","t">>), PyStr(<<".","c","s","v">>),
      PyStr(<<"a","/","/","d",".","o","r","c","/">>), PyStr(<<>>),
      PyPath(<<"d",".","p","a","r","q","u","e","t">>),
      PyPath(<<"g","s",":","/","/","b","/","x",".","c","s","v">>), PyPath(<<"d">>),
      PyInt(5), PyBytes(<<100>>), PyList(<<>>) }
    \cup Frames
Schemas ==
    { PyNone, PyDict(<<>>),
      PyDict(<< <<<<"n","a","m","e">>, <<"s","t","r","i","n","g">>>>, <<<<"a","g","e">>, <<"I","N","T","E","G","E","R">>>> >>) }
SourceFormats == {PyNone, PyStr(CSV), PyStr(<<"c","s","v">>)}
WriteOptions ==
    { [write_disposition |-> UNSET, skip_leading_rows |-> PyNone,
       field_delimiter |-> PyNone],
      [write_disposition |-> PyStr(<<"W","R","I","T","E","_","E","M","P","T","Y">>), skip_leading_rows |-> PyNone,
       field_delimiter |-> PyNone],
      [write_disposition |-> PyStr(<<"W","R","I","T","E","_","A","P","P","E","N","D">>),
       skip_leading_rows |-> PyInt(0), field_delimiter |-> PyStr(<<";">>)] }
InsertRows == {PyList(<<>>), PyList(<<PyDict(<< <<<<"a">>, <<"1">>>> >>)>>)}
CopyDestinations ==
    { PyStr(<<"p","1",".","d","s",".","t","2">>), Table_init(<<"t","2">>, <<"d","s">>, <<"p","1">>),
      Dataset_init(<<"d","s">>, <<"p","1">>), PyNone }

\* what the vendor answers a get, create or delete of a resource
HandleOutcomes ==
    { Return(PyNone), Raise("NotFound", "404"), Raise("Conflict", "409"),
      Raise("AlreadyExists", "409"), Forbidden }
Flags == {PyBool(FALSE), PyBool(TRUE)}

\* what the vendor answers the two calls of an update: the fetch of the
\* resource and the partial update
UpdateEnv(fetch, update) == [fetch |-> fetch, update |-> update]
FetchedDataset ==
    [bigquery_Dataset(<<"p","1",".","d","s">>) EXCEPT
        !.description = PyStr(<<"o","l","d">>),
        !.labels = PyDict(<< <<<<"k">>, <<"v">>>> >>),
        !.default_table_expiration_ms = PyInt(1000)]
DatasetUpdateEnvs ==
    { UpdateEnv(Return(FetchedDataset), Return(PyNone)),
      UpdateEnv(Raise("NotFound", "404"), Return(PyNone)),
      UpdateEnv(Return(FetchedDataset), Forbidden) }
FetchedTables ==
    { bigquery_Table(<<"p","1",".","d","s",".","t">>),
      [bigquery_Table(<<"p","1",".","d","s",".","t">>) EXCEPT
        !.schema = PyList(<<SchemaField(<<"i","d">>, <<"I","N","T","6","4">>),
                            SchemaField(<<"a","g","e">>, <<"I","N","T","6","4">>)>>),
        !.description = PyStr(<<"o","l","d">>),
        !.labels = PyDict(<< <<<<"k">>, <<"v">>>> >>)] }
TableUpdateEnvs ==
    { UpdateEnv(Return(r), Return(PyNone)) : r \in FetchedTables }
    \cup { UpdateEnv(Raise("NotFound", "404"), Return(PyNone)) }
    \cup { UpdateEnv(Return(r), Forbidden) : r \in FetchedTables }
Descriptions == {PyNone, PyStr(<<>>), PyStr(<<"d">>)}
Expirations == {PyNone, PyInt(0), PyInt(1000)}
Labels == {PyNone, PyDict(<<>>), PyDict(<< <<<<"a">>, <<"b">>>> >>)}
Locations == {PyNone, PyStr(<<>>), PyStr(<<"E","U">>)}
CreateSchemas ==
    { PyDict(<<>>),
      PyDict(<< <<<<"t","s">>, <<"t","i","m","e","s","t","a","m","p">>>>, <<<<"a">>, <<"i","n","t">>>> >>) }
PartitioningFields == {PyNone, PyStr(<<"t","s">>)}
ClusteringFields == {PyNone, PyList(<<>>), PyList(<<PyStr(<<"a">>)>>)}
UpdateSchemas ==
    { PyNone, PyDict(<<>>),
      PyDict(<< <<<<"a","g","e">>, <<"s","t","r","i","n","g">>>> >>),
      PyDict(<< <<<<"n">>, <<"f","l","o","a","t">>>>, <<<<"m">>, <<"b","o","o","l">>>> >>) }

\* type strings: every key of the alias table in upper and in lower case,
\* some in mixed case, and strings the table does not hold
TypeStrings ==
    {type_map[i][1] : i \in 1..Len(type_map)}
    \cup {Lower(type_map[i][1]) : i \in 1..Len(type_map)}
    \cup { <<"I","n","t">>, <<"b","i","g","I","n","t">>, <<"V","a","r","c","h","a","r">>, <<"g","e","o","m","e","t","r","y">>, <<"G","E","O","M","E","T","R","Y">>, <<"I","n","t","6","4">>,
           <<"f","l","o","a","t","6","4">>, <<" ","s","t","r","i","n","g">>, <<"r","e","c","o","r","d">>, <<"T","E","X","T","\n">>, <<>>,
           <<"U+017F">> \o <<"t","r","i","n","g">>, <<"U+0131">> \o <<"n","t">>, <<"g","e">> \o <<"U+0130">> }
FieldNames == {<<"a">>, <<"B">>, <<"a"," ","b">>, <<>>}
\* mappings of zero, one and two entries; the keys of a dict are distinct
SchemaDicts ==
    {PyDict(<<>>)}
    \cup {PyDict(<< <<n, t>> >>) : n \in FieldNames, t \in TypeStrings}
    \cup {PyDict(<< <<n[1], t>>, <<n[2], u>> >>) :
            n \in {m \in FieldNames \X FieldNames : m[1] # m[2]}, t \in TypeStrings,
            u \in {<<"i","n","t">>, <<"T","e","x","t">>, <<"g","e","o","m","e","t","r","y">>}}
\* frames of up to two columns, the labels repeated or not strings
ColumnLabels == {PyStr(<<"a">>), PyStr(<<>>), PyInt(0), PyStr(<<"0">>)}
ColumnDtypes == {<<"i","n","t","6","4">>, <<"o","b","j","e","c","t">>, <<"b","o","o","l">>, <<"t","i","m","e","d","e","l","t","a","6","4","[","n","s","]">>, <<"d","a","t","e">>}
Columns == {[name |-> n, dtype |-> d] : n \in ColumnLabels, d \in ColumnDtypes}
SchemaFrames == Frames \cup {PyFrame(<<c>>) : c \in Columns} \cup {PyFrame(<<c, d>>) : c \in Columns, d \in Columns}

\* paths for the format detectors: local and gs:// stems, each with every
\* supported extension in lower, upper and mixed case, with other extensions
\* and with none, and names that begin or end with a dot or a slash
PathStems == {<<"d">>, <<"g","s",":","/","/","b","/","x">>, <<"a","/","b",".","t","a","r">>, <<"/","x",".","c","s","v","/","y">>, <<>>, <<"g","s",":","/","/","b","/">>}
Capitalized(e) == [i \in 1..Len(e) |-> IF i = 2 THEN Upper(<<e[i]>>)[1] ELSE e[i]]
PathExtensions ==
    {format_map[i][1] : i \in 1..Len(format_map)}
    \cup {Upper(format_map[i][1]) : i \in 1..Len(format_map)}
    \cup {Capitalized(format_map[i][1]) : i \in 1..Len(format_map)}
    \cup { <<>>, <<".">>, <<".","t","x","t">>, <<".","c","s","v",".","g","z">>, <<".","c","s","v","/">>, <<".","c","s","v",".">>, <<".","j","s","o","n","1">>,
           <<"c","s","v">>, <<".","j","s","o","n","l",".","o","r","c">>, <<".","c","s","v"," ">>, <<".","O","R">> \o <<"U+212A">>,
           <<".","J","S","O","N","L">> \o <<"U+0130">> }
DetectPaths == {stem \o e : stem \in PathStems, e \in PathExtensions}

\* table ids of one to four segments, with empty segments, and a project
\* segment that is and is not the client's
LoadTableIds ==
    { <<"d","s",".","t">>, <<"o","t","h","e","r",".","d","s",".","t">>, <<"p","1",".","d","s",".","t">>, <<"t">>, <<"a",".","b",".","c",".","d">>, <<>>, <<"d","s",".">>, <<".",".">>,
      <<".">>, <<"o","t","h","e","r",".","d","s",".","t",".">>, <<"d"," ","s",".","t","U+0060">> }
LoadData ==
    { PyNone, PyStr(<<"d",".","c","s","v">>), PyStr(<<"g","s",":","/","/","b","/","x",".","o","r","c">>), PyStr(<<"d">>), PyInt(5),
      PyFrame(<<[name |-> PyStr(<<"a">>), dtype |-> <<"i","n","t","6","4">>]>>) }

\* arguments of create_load_job_config: a source format is a str; "csv" is
\* not the constant CSV
ConfigFormats ==
    { PyStr(f) : f \in {CSV, <<"c","s","v">>, NEWLINE_DELIMITED_JSON, PARQUET, AVRO, ORC, <<>>} }
ConfigSchemas ==
    { PyNone, PyList(<<>>),
      PyList(<<SchemaField(<<"a">>, <<"I","N","T","6","4">>)>>) }
ConfigSkips == { PyNone, PyInt(0), PyInt(1), PyInt(5) }
ConfigDelimiters == { PyNone, PyStr(<<>>), PyStr(<<";">>) }
ConfigDispositions == { WRITE_APPEND, <<"W","R","I","T","E","_","T","R","U","N","C","A","T","E">> }

\* query texts, and params: none, an empty dict, one int, a str and a bool
QueryTexts == { <<"S","E","L","E","C","T"," ","1">>, <<"S","E","L","E","C","T"," ","@","a">> }
QueryParams ==
    { PyNone, PyDict(<<>>), PyDict(<< <<<<"a">>, PyInt(1)>> >>),
      PyDict(<< <<<<"a">>, PyStr(<<"x">>)>>, <<<<"b">>, PyBool(TRUE)>> >>) }
\* the QueryJobConfig objects a caller builds: as constructed, with a
\* billing limit, with parameters of its own
CallerConfigs ==
    { [QueryJobConfig EXCEPT !.maximum_bytes_billed = m, !.query_parameters = q] :
        m \in {PyNone, PyInt(10)},
        q \in {<<>>, <<ScalarQueryParameter(<<"z">>, <<"I","N","T","6","4">>, PyInt(0))>>} }

NoClient == [project_id |-> <<>>]

----------------------------------------------------------------------------
(* The BigQuery specification: a constructed client, the handles obtained   *)
(* from it, and one operation on a Table handle.  A handle holds what its   *)
(* constructor stored and nothing else, so an operation starts from the     *)
(* handle as constructed.                                                   *)

InitBq ==
    /\ client = NoClient
    /\ bq \in BqClients
    /\ handle = NoHandle
    /\ pc = "ready"
    /\ call = NoCall
    /\ result = NoResult
    /\ vendor = <<>>
    /\ remote = NoRemote

ClientDataset ==
    /\ pc = "ready"
    /\ handle = NoHandle
    /\ \E dataset_id \in DatasetIds :
        /\ handle' = BqClient_dataset(bq, dataset_id)
        /\ call' = [method |-> "dataset", dataset_id |-> dataset_id]
        /\ result' = Return(BqClient_dataset(bq, dataset_id))
        /\ vendor' = <<>>
        /\ UNCHANGED <<client, bq, pc, remote>>

DatasetTable ==
    /\ pc = "ready"
    /\ handle # NoHandle
    /\ handle.t = "Dataset"
    /\ \E table_id \in TableIds :
        /\ handle' = Dataset_table(handle, table_id)
        /\ call' = [method |-> "table", table_id |-> table_id]
        /\ result' = Return(Dataset_table(handle, table_id))
        /\ vendor' = <<>>
        /\ UNCHANGED <<client, bq, pc, remote>>

TableRead ==
    /\ pc = "ready"
    /\ handle # NoHandle
    /\ handle.t = "Table"
    /\ \E max_results \in MaxResultsInputs, env \in ReadEnvs :
        LET e == Table_read(handle, max_results, env) IN
        /\ pc' = "returned"
        /\ call' = [method |-> "read", max_results |-> max_results, env |-> env]
        /\ result' = e.result
        /\ vendor' = e.vendor
        /\ UNCHANGED <<client, bq, handle, remote>>

TableWrite ==
    /\ pc = "ready"
    /\ handle # NoHandle
    /\ handle.t = "Table"
    /\ \E data \in WriteData, schema \in Schemas, source_format \in SourceFormats,
          o \in WriteOptions, env \in WriteEnvs :
        LET e == Table_write(handle, data, schema,
                             Default(o.write_disposition, PyStr(WRITE_TRUNCATE)).s,
                             source_format, o.skip_leading_rows, o.field_delimiter, env)
        IN
        /\ pc' = "returned"
        /\ call' = [method |-> "write", data |-> data, schema |-> schema,
                    source_format |-> source_format, options |-> o, env |-> env]
        /\ result' = e.result
        /\ vendor' = e.vendor
        /\ UNCHANGED <<client, bq, handle, remote>>

TableInsert ==
    /\ pc = "ready"
    /\ handle # NoHandle
    /\ handle.t = "Table"
    /\ \E rows \in InsertRows, ignore_unknown_values \in BOOLEAN,
          skip_invalid_rows \in BOOLEAN, env \in InsertEnvs :
        LET e == Table_insert(handle, rows, ignore_unknown_values, skip_invalid_rows,
                              env) IN
        /\ pc' = "returned"
        /\ call' = [method |-> "insert", rows |-> rows,
                    ignore_unknown_values |-> ignore_unknown_values,
                    skip_invalid_rows |-> skip_invalid_rows, env |-> env]
        /\ result' = e.result
        /\ vendor' = e.vendor
        /\ UNCHANGED <<client, bq, handle, remote>>

TableToGcs ==
    /\ pc = "ready"
    /\ handle # NoHandle
    /\ handle.t = "Table"
    /\ \E destination_uri \in {<<"g","s",":","/","/","b","/","o","u","t">>}, export_format \in {CSV, PARQUET},
          compression \in {<<"G","Z","I","P">>}, print_header \in BOOLEAN,
          field_delimiter \in {<<",">>}, env \in ExtractEnvs :
        LET e == Table_to_gcs(handle, destination_uri, export_format, compression,
                              print_header, field_delimiter, env) IN
        /\ pc' = "returned"
        /\ call' = [method |-> "to_gcs", destination_uri |-> destination_uri,
                    export_format |-> export_format, compression |-> compression,
                    print_header |-> print_header, field_delimiter |-> field_delimiter,
                    env |-> env]
        /\ result' = e.result
        /\ vendor' = e.vendor
        /\ UNCHANGED <<client, bq, handle, remote>>

TableCopy ==
    /\ pc = "ready"
    /\ handle # NoHandle
    /\ handle.t = "Table"
    /\ \E destination_table \in CopyDestinations,
          write_disposition \in {<<"W","R","I","T","E","_","T","R","U","N","C","A","T","E">>, <<"W","R","I","T","E","_","E","M","P","T","Y">>},
          env \in CopyEnvs :
        LET e == Table_copy(handle, destination_table, write_disposition, env) IN
        /\ pc' = "returned"
        /\ call' = [method |-> "copy", destination_table |-> destination_table,
                    write_disposition |-> write_disposition, env |-> env]
        /\ result' = e.result
        /\ vendor' = e.vendor
        /\ UNCHANGED <<client, bq, handle, remote>>

ValidateIdentifier ==
    /\ pc = "ready"
    /\ handle = NoHandle
    /\ \E identifier \in IdInputs, name \in IdNames :
        LET v == validate_identifier(identifier, name) IN
        /\ pc' = "returned"
        /\ call' = [method |-> "validate_identifier", identifier |-> identifier,
                    name |-> name]
        /\ result' = IF v.ok THEN Return(PyStr(v.val)) ELSE Raise(v.type, v.msg)
        /\ vendor' = <<>>
        /\ UNCHANGED <<client, bq, handle, remote>>

DatasetExists ==
    /\ pc = "ready"
    /\ handle # NoHandle
    /\ handle.t = "Dataset"
    /\ \E outcome \in HandleOutcomes :
        LET e == Dataset_exists(handle, outcome) IN
        /\ pc' = "returned"
        /\ call' = [method |-> "Dataset.exists", outcome |-> outcome]
        /\ result' = e.result
        /\ vendor' = e.vendor
        /\ UNCHANGED <<client, bq, handle, remote>>

TableExists ==
    /\ pc = "ready"
    /\ handle # NoHandle
    /\ handle.t = "Table"
    /\ \E outcome \in HandleOutcomes :
        LET e == Table_exists(handle, outcome) IN
        /\ pc' = "returned"
        /\ call' = [method |-> "Table.exists", outcome |-> outcome]
        /\ result' = e.result
        /\ vendor' = e.vendor
        /\ UNCHANGED <<client, bq, handle, remote>>

DatasetCreate ==
    /\ pc = "ready"
    /\ handle # NoHandle
    /\ handle.t = "Dataset"
    /\ \E location \in Locations, description \in Descriptions,
          default_table_expiration_ms \in Expirations, exists_ok \in Flags,
          outcome \in HandleOutcomes :
        LET e == Dataset_create(handle, location, description,
                                default_table_expiration_ms, exists_ok, outcome) IN
        /\ pc' = "returned"
        /\ call' = [method |-> "Dataset.create", location |-> location,
                    description |-> description,
                    default_table_expiration_ms |-> default_table_expiration_ms,
                    exists_ok |-> exists_ok, outcome |-> outcome]
        /\ result' = e.result
        /\ vendor' = e.vendor
        /\ UNCHANGED <<client, bq, handle, remote>>

TableCreate ==
    /\ pc = "ready"
    /\ handle # NoHandle
    /\ handle.t = "Table"
    /\ \E schema \in CreateSchemas, partitioning_field \in PartitioningFields,
          clustering_fields \in ClusteringFields, description \in Descriptions,
          exists_ok \in Flags, outcome \in HandleOutcomes :
        LET e == Table_create(handle, schema, partitioning_field, clustering_fields,
                              description, exists_ok, outcome) IN
        /\ pc' = "returned"
        /\ call' = [method |-> "Table.create", schema |-> schema,
                    partitioning_field |-> partitioning_field,
                    clustering_fields |-> clustering_fields,
                    description |-> description,
                    exists_ok |-> exists_ok, outcome |-> outcome]
        /\ result' = e.result
        /\ vendor' = e.vendor
        /\ UNCHANGED <<client, bq, handle, remote>>

DatasetDelete ==
    /\ pc = "ready"
    /\ handle # NoHandle
    /\ handle.t = "Dataset"
    /\ \E delete_contents \in BOOLEAN, not_found_ok \in Flags,
          outcome \in HandleOutcomes :
        LET e == Dataset_delete(handle, delete_contents, not_found_ok, outcome) IN
        /\ pc' = "returned"
        /\ call' = [method |-> "Dataset.delete", delete_contents |-> delete_contents,
                    not_found_ok |-> not_found_ok, outcome |-> outcome]
        /\ result' = e.result
        /\ vendor' = e.vendor
        /\ UNCHANGED <<client, bq, handle, remote>>

TableDelete ==
    /\ pc = "ready"
    /\ handle # NoHandle
    /\ handle.t = "Table"
    /\ \E not_found_ok \in Flags, outcome \in HandleOutcomes :
        LET e == Table_delete(handle, not_found_ok, outcome) IN
        /\ pc' = "returned"
        /\ call' = [method |-> "Table.delete", not_found_ok |-> not_found_ok,
                    outcome |-> outcome]
        /\ result' = e.result
        /\ vendor' = e.vendor
        /\ UNCHANGED <<client, bq, handle, remote>>

DatasetUpdate ==
    /\ pc = "ready"
    /\ handle # NoHandle
    /\ handle.t = "Dataset"
    /\ \E description \in Descriptions, labels \in Labels,
          default_table_expiration_ms \in Expirations, env \in DatasetUpdateEnvs :
        LET e == Dataset_update(handle, description, labels,
                                default_table_expiration_ms, env) IN
        /\ pc' = "returned"
        /\ call' = [method |-> "Dataset.update", description |-> description,
                    labels |-> labels,
                    default_table_expiration_ms |-> default_table_expiration_ms,
                    env |-> env]
        /\ result' = e.result
        /\ vendor' = e.vendor
        /\ UNCHANGED <<client, bq, handle, remote>>

TableUpdate ==
    /\ pc = "ready"
    /\ handle # NoHandle
    /\ handle.t = "Table"
    /\ \E schema \in UpdateSchemas, description \in Descriptions, labels \in Labels,
          env \in TableUpdateEnvs :
        LET e == Table_update(handle, schema, description, labels, env) IN
        /\ pc' = "returned"
        /\ call' = [method |-> "Table.update", schema |-> schema,
                    description |-> description, labels |-> labels, env |-> env]
        /\ result' = e.result
        /\ vendor' = e.vendor
        /\ UNCHANGED <<client, bq, handle, remote>>

DictToSchemaFields ==
    /\ pc = "ready"
    /\ handle = NoHandle
    /\ \E schema_dict \in SchemaDicts :
        /\ pc' = "returned"
        /\ call' = [method |-> "dict_to_schema_fields", schema_dict |-> schema_dict]
        /\ result' = Return(dict_to_schema_fields(schema_dict))
        /\ vendor' = <<>>
        /\ UNCHANGED <<client, bq, handle, remote>>

DataframeToSchemaFields ==
    /\ pc = "ready"
    /\ handle = NoHandle
    /\ \E df \in SchemaFrames :
        /\ pc' = "returned"
        /\ call' = [method |-> "dataframe_to_schema_fields", df |-> df]
        /\ result' = Return(dataframe_to_schema_fields(df))
        /\ vendor' = <<>>
        /\ UNCHANGED <<client, bq, handle, remote>>

\* detect_source_format(Path(path))
DetectSourceFormat ==
    /\ pc = "ready"
    /\ handle = NoHandle
    /\ \E path \in DetectPaths :
        LET v == detect_source_format(path) IN
        /\ pc' = "returned"
        /\ call' = [method |-> "detect_source_format", path |-> path]
        /\ result' = IF v.ok THEN Return(PyStr(v.val))
                     ELSE [kind |-> "raise", type |-> v.type, msg |-> v.msg,
                           text |-> v.text]
        /\ vendor' = <<>>
        /\ UNCHANGED <<client, bq, handle, remote>>

ClientLoadData ==
    /\ pc = "ready"
    /\ handle = NoHandle
    /\ \E data \in LoadData, table_id \in LoadTableIds, schema \in Schemas,
          o \in WriteOptions, env \in WriteEnvs :
        LET e == BqClient_load_data(bq, data, table_id, schema, PyNone,
                                    Default(o.write_disposition, PyStr(WRITE_APPEND)).s,
                                    o.skip_leading_rows, o.field_delimiter, env)
        IN
        /\ pc' = "returned"
        /\ call' = [method |-> "load_data", data |-> data, table_id |-> table_id,
                    schema |-> schema, source_format |-> PyNone, options |-> o,
                    env |-> env]
        /\ result' = e.result
        /\ vendor' = e.vendor
        /\ UNCHANGED <<client, bq, handle, remote>>

CreateLoadJobConfig ==
    /\ pc = "ready"
    /\ handle = NoHandle
    /\ \E source_format \in ConfigFormats, schema \in ConfigSchemas,
          write_disposition \in ConfigDispositions, skip_leading_rows \in ConfigSkips,
          field_delimiter \in ConfigDelimiters, autodetect \in BOOLEAN :
        /\ pc' = "returned"
        /\ call' = [method |-> "create_load_job_config", source_format |-> source_format,
                    schema |-> schema, write_disposition |-> write_disposition,
                    skip_leading_rows |-> skip_leading_rows,
                    field_delimiter |-> field_delimiter, autodetect |-> autodetect]
        /\ result' = Return(create_load_job_config(source_format, schema,
                          write_disposition, skip_leading_rows, field_delimiter,
                          autodetect))
        /\ vendor' = <<>>
        /\ UNCHANGED <<client, bq, handle, remote>>

\* Client.__call__ is query(query, to_dataframe, **kwargs): the same call
ClientQuery ==
    /\ pc \in {"ready", "returned"}
    /\ handle # NoHandle
    /\ handle.t = "QueryJobConfigs"
    /\ \E query \in QueryTexts, params \in QueryParams,
          job_config \in {PyNone} \cup {Ref(id) : id \in DOMAIN handle.objs},
          to_dataframe \in BOOLEAN, env \in ReadEnvs :
        LET e == BqClient_query(bq, handle.objs, query, params, job_config,
                                to_dataframe, env)
        IN
        /\ pc' = "returned"
        /\ call' = [method |-> "query", query |-> query, params |-> params,
                    job_config |-> job_config, to_dataframe |-> to_dataframe,
                    env |-> env]
        /\ result' = e.result
        /\ vendor' = e.vendor
        /\ handle' = [handle EXCEPT !.objs = e.objs]
        /\ UNCHANGED <<client, bq, remote>>

NextBq ==
    \/ ClientDataset
    \/ DatasetTable
    \/ TableRead
    \/ TableWrite
    \/ TableInsert
    \/ TableToGcs
    \/ TableCopy
    \/ ValidateIdentifier
    \/ DatasetExists
    \/ TableExists
    \/ DatasetCreate
    \/ TableCreate
    \/ DatasetDelete
    \/ TableDelete
    \/ DatasetUpdate
    \/ TableUpdate
    \/ DictToSchemaFields
    \/ DataframeToSchemaFields
    \/ DetectSourceFormat
    \/ ClientLoadData
    \/ CreateLoadJobConfig

SpecBq == InitBq /\ [][NextBq]_vars

----------------------------------------------------------------------------
(* The query specification: a caller holding two QueryJobConfig objects, a  *)
(* client constructed with no default config or with the first of them, and *)
(* a sequence of Client.query calls, each with no job_config or with one of *)
(* the two objects.                                                        *)

InitQuery ==
    /\ client = NoClient
    /\ bq \in {BqClient_init(<<"p","1">>, <<"E","U">>, d) : d \in {PyNone, Ref("cfg1")}}
    /\ handle \in {[t |-> "QueryJobConfigs", objs |-> [cfg1 |-> c1, cfg2 |-> c2]] :
                      c1 \in CallerConfigs, c2 \in CallerConfigs}
    /\ pc = "ready"
    /\ call = NoCall
    /\ result = NoResult
    /\ vendor = <<>>
    /\ remote = NoRemote

NextQuery == ClientQuery

SpecQuery == InitQuery /\ [][NextQuery]_vars

----------------------------------------------------------------------------
(* The schema specification: the dataset p1.ds and its table p1.ds.t as    *)
(* the remote service holds them, one caller that works on them through    *)
(* its Client, one call after the other, and the other callers of the same *)
(* service.  `remote` says whether the service has the dataset, which      *)
(* table it holds (or NoTable), and whether a copy job this caller         *)
(* submitted into the table is still to end.  `handle` is the handle the   *)
(* caller made for its call: client.dataset("ds"), or its table("t") or    *)
(* table("u").  A call that makes two blocking vendor calls is two steps:  *)
(* Table.update is at "updating" between get_table and update_table,       *)
(* Table.write and Client.load_data are at "loading" between the submit of *)
(* the load job and the return of its result(); the service can change in  *)
(* between.  The calls that leave the properties of the table alone        *)
(* (exists, read, insert, to_gcs, get_metadata, get_schema, Dataset.update)*)
(* are no steps here.                                                       *)

MaxFields == 2         \* fields of the remote schema beyond which no update is begun
MaxForeign == 1        \* fields another writer has in the schema at a time

NoTable == [t |-> "no table"]
TheTable == <<"p","1",".","d","s",".","t">>
Service(dataset, table, copying) ==
    [t |-> "service", dataset |-> dataset, table |-> table, copying |-> copying]

\* the handles the caller makes: client.dataset("ds"), .table("t"), .table("u")
DsHandle == BqClient_dataset(bq, <<"d","s">>)
TheHandle == Dataset_table(DsHandle, <<"t">>)
OtherHandle == Dataset_table(DsHandle, <<"u">>)

\* the answers of the service to the vendor calls, by what it holds
GetTableAnswer(held) ==
    IF held.table = NoTable THEN Raise("NotFound", "404") ELSE Return(held.table)
UpdateTableAnswers(held) ==
    IF held.table = NoTable THEN {Raise("NotFound", "404")}
    ELSE {Return(PyNone), Forbidden}
CreateTableAnswers(held) ==
    IF ~held.dataset THEN {Raise("NotFound", "404")}
    ELSE IF held.table = NoTable THEN {Return(PyNone), Forbidden}
    ELSE {Raise("Conflict", "409")}
DeleteTableAnswers(held) ==
    IF held.table = NoTable THEN {Raise("NotFound", "404")}
    ELSE {Return(PyNone), Forbidden}
\* a dataset is deleted with its tables, or when it has none (it can have
\* other tables than p1.ds.t)
DeleteDatasetAnswers(held, delete_contents) ==
    IF ~held.dataset THEN {Raise("NotFound", "404")}
    ELSE IF delete_contents THEN {Return(PyNone)}
    ELSE IF held.table = NoTable THEN {Return(PyNone), Raise("BadRequest", "400")}
    ELSE {Raise("BadRequest", "400")}
CreateDatasetAnswers(held) ==
    IF held.dataset THEN {Raise("Conflict", "409")} ELSE {Return(PyNone)}
\* create_table(exists_ok=True) returns also when the table is there
EnsureTableAnswers(held) ==
    IF held.dataset THEN {Return(PyNone)} ELSE {Raise("NotFound", "404")}
\* LoadJob.result(): the job ended, well or not
LoadResultAnswers(held) ==
    IF held.dataset THEN {Return(LoadJob), Raise("BadRequest", "400")}
    ELSE {Raise("NotFound", "404")}

\* the remote table after update_table(sent, fields) was accepted
VendorUpdate(held, sent, fields) ==
    [held EXCEPT
        !.schema = IF \E i \in 1..Len(fields) : fields[i] = <<"s","c","h","e","m","a">>
                   THEN sent.schema ELSE @,
        !.description = IF \E i \in 1..Len(fields) : fields[i] = <<"d","e","s","c","r","i","p","t","i","o","n">>
                        THEN sent.description ELSE @,
        !.labels = IF \E i \in 1..Len(fields) : fields[i] = <<"l","a","b","e","l","s">>
                   THEN sent.labels ELSE @]

\* the schemas the service can find in loaded data when the job names none,
\* and the schema of the table p1.ds.u
DetectedSchemas == {PyList(<<SchemaField(<<"a">>, <<"I","N","T","6","4">>)>>)}

\* the table with the schema a job gives it: made when there is none
WithSchema(table, s) ==
    IF table = NoTable THEN [bigquery_Table(TheTable) EXCEPT !.schema = s]
    ELSE [table EXCEPT !.schema = s]

\* the tables the service can hold after a load job into p1.ds.t ended well:
\* the job makes the table when there is none and replaces the schema of a
\* table it truncates, by the job's schema or by the one found in the data;
\* under another disposition the table keeps its schema
LoadedTables(table, job_config) ==
    LET schemas == IF job_config.schema # PyNone /\ Len(job_config.schema.xs) > 0
                   THEN {job_config.schema} ELSE DetectedSchemas
    IN  IF table = NoTable \/ job_config.write_disposition = WRITE_TRUNCATE
        THEN {WithSchema(table, s) : s \in schemas}
        ELSE {table}

InitSchema ==
    /\ client = NoClient
    /\ bq = BqClient_init(<<"p","1">>, <<"E","U">>, PyNone)
    /\ handle = NoHandle
    /\ pc = "ready"
    /\ call = NoCall
    /\ result = NoResult
    /\ vendor = <<>>
    /\ remote \in {Service(TRUE, t, FALSE) : t \in FetchedTables \cup {NoTable}}

\* the caller is between two calls
Idle == pc \in {"ready", "returned"}

\* Table.update up to the return of get_table (line 291).  The call ends here
\* when get_table raises or when no property is given (lines 309-312);
\* otherwise update_table is still to be called.
TableUpdateFetch ==
    /\ Idle
    /\ IF remote.table = NoTable THEN TRUE ELSE Len(remote.table.schema.xs) < MaxFields
    /\ \E schema \in UpdateSchemas :
       \E description \in {PyNone} \cup (IF schema = PyNone THEN {PyStr(<<"d">>)} ELSE {}) :
        LET env == UpdateEnv(GetTableAnswer(remote), NoResult)
            e == Table_update(TheHandle, schema, description, PyNone, env)
        IN
        /\ pc' = IF Len(e.vendor) = 1 THEN "returned" ELSE "updating"
        /\ handle' = TheHandle
        /\ call' = [method |-> "Table.update", schema |-> schema,
                    description |-> description, labels |-> PyNone, env |-> env]
        /\ result' = IF Len(e.vendor) = 1 THEN e.result ELSE NoResult
        /\ vendor' = <<e.vendor[1]>>
        /\ UNCHANGED <<client, bq, remote>>

\* Table.update from the call of update_table (line 310) to its end: the table
\* sent is built from the table get_table returned
TableUpdateSend ==
    /\ pc = "updating"
    /\ \E update \in UpdateTableAnswers(remote) :
        LET env == UpdateEnv(call.env.fetch, update)
            e == Table_update(handle, call.schema, call.description, call.labels, env)
        IN
        /\ pc' = "returned"
        /\ call' = [call EXCEPT !.env = env]
        /\ result' = e.result
        /\ vendor' = e.vendor
        /\ remote' = IF update.kind = "return"
                     THEN [remote EXCEPT !.table =
                              VendorUpdate(@, e.vendor[2].args.resource,
                                           e.vendor[2].args.fields)]
                     ELSE remote
        /\ UNCHANGED <<client, bq, handle>>

\* Table.create: create_table makes the table it is sent when there is none
TableCreateRemote ==
    /\ Idle
    /\ \E schema \in CreateSchemas, exists_ok \in Flags,
          outcome \in CreateTableAnswers(remote) :
        LET e == Table_create(TheHandle, schema, PyNone, PyNone, PyNone,
                              exists_ok, outcome) IN
        /\ pc' = "returned"
        /\ handle' = TheHandle
        /\ call' = [method |-> "Table.create", schema |-> schema,
                    partitioning_field |-> PyNone, clustering_fields |-> PyNone,
                    description |-> PyNone,
                    exists_ok |-> exists_ok, outcome |-> outcome]
        /\ result' = e.result
        /\ vendor' = e.vendor
        /\ remote' = IF outcome.kind = "return"
                     THEN [remote EXCEPT !.table = e.vendor[1].args.table]
                     ELSE remote
        /\ UNCHANGED <<client, bq>>

\* Table.delete: after a delete_table that returned the service holds no table
TableDeleteRemote ==
    /\ Idle
    /\ \E not_found_ok \in Flags, outcome \in DeleteTableAnswers(remote) :
        LET e == Table_delete(TheHandle, not_found_ok, outcome) IN
        /\ pc' = "returned"
        /\ handle' = TheHandle
        /\ call' = [method |-> "Table.delete", not_found_ok |-> not_found_ok,
                    outcome |-> outcome]
        /\ result' = e.result
        /\ vendor' = e.vendor
        /\ remote' = IF outcome.kind = "return" THEN [remote EXCEPT !.table = NoTable]
                     ELSE remote
        /\ UNCHANGED <<client, bq>>

\* Dataset.delete: a delete_dataset that returned leaves neither the dataset
\* nor its table
DatasetDeleteRemote ==
    /\ Idle
    /\ \E delete_contents \in BOOLEAN, not_found_ok \in Flags :
       \E outcome \in DeleteDatasetAnswers(remote, delete_contents) :
        LET e == Dataset_delete(DsHandle, delete_contents, not_found_ok, outcome) IN
        /\ pc' = "returned"
        /\ handle' = DsHandle
        /\ call' = [method |-> "Dataset.delete", delete_contents |-> delete_contents,
                    not_found_ok |-> not_found_ok, outcome |-> outcome]
        /\ result' = e.result
        /\ vendor' = e.vendor
        /\ remote' = IF outcome.kind = "return"
                     THEN [remote EXCEPT !.dataset = FALSE, !.table = NoTable]
                     ELSE remote
        /\ UNCHANGED <<client, bq>>

\* Dataset.create: a create_dataset that returned made the dataset, empty
DatasetCreateRemote ==
    /\ Idle
    /\ \E exists_ok \in Flags, outcome \in CreateDatasetAnswers(remote) :
        LET e == Dataset_create(DsHandle, PyNone, PyNone, PyNone, exists_ok, outcome) IN
        /\ pc' = "returned"
        /\ handle' = DsHandle
        /\ call' = [method |-> "Dataset.create", location |-> PyNone,
                    description |-> PyNone, default_table_expiration_ms |-> PyNone,
                    exists_ok |-> exists_ok, outcome |-> outcome]
        /\ result' = e.result
        /\ vendor' = e.vendor
        /\ remote' = IF outcome.kind = "return" THEN [remote EXCEPT !.dataset = TRUE]
                     ELSE remote
        /\ UNCHANGED <<client, bq>>

\* Table.write up to the return of its first vendor call: create_table when
\* there is no data (the call ends with it), else the submit of the load
\* job, whose result() is still to be called
TableWriteRemote ==
    /\ Idle
    /\ \E data \in {PyNone, PyStr(<<"g","s",":","/","/","b","/","x",".","c","s","v">>),
                    PyFrame(<<[name |-> PyStr(<<"a">>), dtype |-> <<"i","n","t","6","4">>]>>)},
          schema \in {PyNone, PyDict(<< <<<<"n">>, <<"f","l","o","a","t">>>> >>)},
          o \in {w \in WriteOptions : w.write_disposition = UNSET} :
       \E submit \in (IF data = PyNone THEN EnsureTableAnswers(remote)
                      ELSE {Return(LoadJob)}) :
        LET env == Env(Return(PyNone), submit, NoResult)
            e == Table_write(TheHandle, data, schema,
                             Default(o.write_disposition, PyStr(WRITE_TRUNCATE)).s,
                             PyNone, o.skip_leading_rows, o.field_delimiter, env)
            loading == Len(e.vendor) = 2
        IN
        /\ pc' = IF loading THEN "loading" ELSE "returned"
        /\ handle' = TheHandle
        /\ call' = [method |-> "write", data |-> data, schema |-> schema,
                    source_format |-> PyNone, options |-> o, env |-> env]
        /\ result' = IF loading THEN NoResult ELSE e.result
        /\ vendor' = IF loading THEN <<e.vendor[1]>> ELSE e.vendor
        /\ remote' = IF data = PyNone /\ Len(e.vendor) = 1 /\ e.result.kind = "return"
                        /\ remote.table = NoTable
                     THEN [remote EXCEPT !.table =
                              WithSchema(NoTable, e.vendor[1].args.schema)]
                     ELSE remote
        /\ UNCHANGED <<client, bq>>

\* Client.load_data up to the return of the submit of the load job; it makes
\* its own handle of the table it is given, p1.ds.t or another one
ClientLoadDataRemote ==
    /\ Idle
    /\ \E data \in {PyStr(<<"g","s",":","/","/","b","/","x",".","o","r","c">>)}, table_id \in {<<"d","s",".","t">>, <<"d","s",".","u">>},
          schema \in {PyNone, PyDict(<< <<<<"n">>, <<"f","l","o","a","t">>>> >>)},
          o \in {w \in WriteOptions : w.write_disposition = UNSET} :
        LET env == Env(Return(PyNone), Return(LoadJob), NoResult)
            e == BqClient_load_data(bq, data, table_id, schema, PyNone,
                                    Default(o.write_disposition, PyStr(WRITE_APPEND)).s,
                                    o.skip_leading_rows, o.field_delimiter, env)
        IN
        /\ pc' = "loading"
        /\ call' = [method |-> "load_data", data |-> data, table_id |-> table_id,
                    schema |-> schema, source_format |-> PyNone, options |-> o,
                    env |-> env]
        /\ result' = NoResult
        /\ vendor' = <<e.vendor[1]>>
        /\ UNCHANGED <<client, bq, handle, remote>>

\* the call at "loading", run again under the answers env
LoadingCall(env) ==
    IF call.method = "write"
    THEN Table_write(handle, call.data, call.schema,
                     Default(call.options.write_disposition, PyStr(WRITE_TRUNCATE)).s,
                     call.source_format, call.options.skip_leading_rows,
                     call.options.field_delimiter, env)
    ELSE BqClient_load_data(bq, call.data, call.table_id, call.schema,
                            call.source_format,
                            Default(call.options.write_disposition, PyStr(WRITE_APPEND)).s,
                            call.options.skip_leading_rows,
                            call.options.field_delimiter, env)

\* Table.write and Client.load_data from load_job.result() to their end: a
\* job that ended well has loaded the table it was given
LoadJobResult ==
    /\ pc = "loading"
    /\ \E wait \in LoadResultAnswers(remote) :
        LET env == [call.env EXCEPT !.wait = wait]
            e == LoadingCall(env)
        IN
        /\ pc' = "returned"
        /\ call' = [call EXCEPT !.env = env]
        /\ result' = e.result
        /\ vendor' = e.vendor
        /\ IF wait.kind = "return" /\ e.vendor[1].args.destination = TheTable
           THEN \E t \in LoadedTables(remote.table, e.vendor[1].args.job_config) :
                    remote' = [remote EXCEPT !.table = t]
           ELSE remote' = remote
        /\ UNCHANGED <<client, bq, handle>>

\* Table.copy of p1.ds.u into p1.ds.t: copy_table submits the job and the call
\* returns it, without waiting for it
TableCopyRemote ==
    /\ Idle
    /\ ~remote.copying
    /\ \E submit \in {Return(CopyJob), Forbidden} :
        LET env == Env(Return(PyNone), submit, Return(PyNone))
            e == Table_copy(OtherHandle, PyStr(TheTable), WRITE_TRUNCATE, env)
        IN
        /\ pc' = "returned"
        /\ handle' = OtherHandle
        /\ call' = [method |-> "copy", destination_table |-> PyStr(TheTable),
                    write_disposition |-> WRITE_TRUNCATE, env |-> env]
        /\ result' = e.result
        /\ vendor' = e.vendor
        /\ remote' = IF submit.kind = "return" THEN [remote EXCEPT !.copying = TRUE]
                     ELSE remote
        /\ UNCHANGED <<client, bq>>

\* The copy job the caller submitted ends at the service, at any moment of the
\* caller's: it fails, or p1.ds.t has the schema of p1.ds.u from then on.
CopyJobEnds ==
    /\ remote.copying
    /\ \/ remote' = [remote EXCEPT !.copying = FALSE]
       \/ /\ remote.dataset
          /\ \E s \in DetectedSchemas :
                remote' = [remote EXCEPT !.copying = FALSE,
                                         !.table = WithSchema(@, s)]
    /\ UNCHANGED <<client, bq, handle, pc, call, result, vendor>>

\* A vendor call of another caller of the service is answered, at any moment
\* of this caller's: its update_table adds a field, its delete_table leaves
\* no table, its create_table makes one when there is none, its truncating
\* load or copy job replaces the schema, its delete_dataset takes the dataset
\* with the table, its create_dataset makes the dataset.
RemoteChange ==
    /\ \/ /\ remote.table # NoTable
          /\ Len(remote.table.schema.xs) < MaxFields
          /\ Cardinality({i \in 1..Len(remote.table.schema.xs) :
                             remote.table.schema.xs[i].name = <<"x">>}) < MaxForeign
          /\ remote' = [remote EXCEPT !.table.schema =
                            PyList(@.xs \o <<SchemaField(<<"x">>, <<"S","T","R","I","N","G">>)>>)]
       \/ /\ remote.table # NoTable
          /\ remote' = [remote EXCEPT !.table = NoTable]
       \/ /\ remote.dataset
          /\ \E t \in FetchedTables :
                /\ IF remote.table = NoTable THEN TRUE
                   ELSE t.schema # remote.table.schema
                /\ remote' = [remote EXCEPT !.table = WithSchema(@, t.schema)]
       \/ /\ remote.dataset
          /\ remote' = [remote EXCEPT !.dataset = FALSE, !.table = NoTable]
       \/ /\ ~remote.dataset
          /\ remote' = [remote EXCEPT !.dataset = TRUE]
    /\ UNCHANGED <<client, bq, handle, pc, call, result, vendor>>

NextSchema ==
    \/ TableUpdateFetch
    \/ TableUpdateSend
    \/ TableCreateRemote
    \/ TableDeleteRemote
    \/ DatasetDeleteRemote
    \/ DatasetCreateRemote
    \/ TableWriteRemote
    \/ ClientLoadDataRemote
    \/ LoadJobResult
    \/ TableCopyRemote
    \/ CopyJobEnds
    \/ RemoteChange

SpecSchema == InitSchema /\ [][NextSchema]_vars

----------------------------------------------------------------------------
(* Properties of the BigQuery specification *)

\* the generic identifier pattern ^[A-Za-z_][A-Za-z0-9_]*$ as a pattern of
\* the whole string
IsGenericIdentifier(s) ==
    /\ Len(s) >= 1
    /\ s[1] \in LowerAZ \cup UpperAZ \cup {"_"}
    /\ \A i \in 2..Len(s) : s[i] \in Alnum \cup {"_"}

\* an id that passes generic identifier validation
ValidComponent(s) == Len(s) <= IdentifierMaxLen /\ IsGenericIdentifier(s)

\* C4: client.dataset(dataset_id) and dataset.table(table_id) raise ValueError
\* for every id that is empty, longer than 1024 characters or not a generic
\* identifier, so that no Dataset or Table handle holds an invalid dataset or
\* table component, and the table id in the SQL of a read is built from
\* validated components only.
C4_Original ==
    /\ (call.method = "dataset" /\ ~ValidComponent(call.dataset_id)) =>
          (result.kind = "raise" /\ result.type = "ValueError")
    /\ (call.method = "table" /\ ~ValidComponent(call.table_id)) =>
          (result.kind = "raise" /\ result.type = "ValueError")
    /\ handle # NoHandle => ValidComponent(handle.dataset_id)
    /\ (handle # NoHandle /\ handle.t = "Table") => ValidComponent(handle.table_id)
    /\ (Returned({"read"}) /\ Len(vendor) >= 1) =>
          /\ ValidComponent(handle.dataset_id)
          /\ ValidComponent(handle.table_id)

\* C5: for every Table.read(max_results=n) with a row limit n >= 1, the SQL
\* text given to the vendor contains the placeholder @max_results and does
\* not contain LIMIT <n>, and the job config of the query carries a query
\* parameter max_results of value n.
C5_Original ==
    (/\ Returned({"read"})
     /\ call.max_results.t = "int"
     /\ call.max_results.i >= 1) =>
        /\ Len(vendor) >= 1
        /\ vendor[1].api = "query"
        /\ Contains(vendor[1].args.query, <<"@","m","a","x","_","r","e","s","u","l","t","s">>)
        /\ ~Contains(vendor[1].args.query, LIMIT \o IntToStr(call.max_results.i))
        /\ vendor[1].args.job_config # PyNone
        /\ \E i \in 1..Len(vendor[1].args.job_config.query_parameters) :
              vendor[1].args.job_config.query_parameters[i] =
                  [name |-> <<"m","a","x","_","r","e","s","u","l","t","s">>, value |-> call.max_results]

IdentifierCall ==
    /\ pc = "returned"
    /\ call.method = "validate_identifier"
    /\ ~Contains(Lower(call.name), PROJECT)

\* C6: for a name that is not a project's, validate_identifier(s, name)
\* returns s unchanged when s is a generic identifier of at most 1024
\* characters, and raises ValueError when s is empty, longer than 1024
\* characters, starts with a digit, or has a character outside [A-Za-z0-9_].
C6_Original ==
    IdentifierCall =>
        LET s == call.identifier
        IN  /\ (IsGenericIdentifier(s) /\ Len(s) <= IdentifierMaxLen) =>
                  result = Return(PyStr(s))
            /\ (\/ Len(s) = 0
                \/ Len(s) > IdentifierMaxLen
                \/ s[1] \in Digit09
                \/ \E i \in 1..Len(s) : s[i] \notin Alnum \cup {"_"}) =>
                  (result.kind = "raise" /\ result.type = "ValueError")

LoadApis == {"load_table_from_uri", "load_table_from_file", "load_table_from_dataframe"}

\* the calls of the vendor log made through one of the given methods
CallsOf(apis) == {i \in 1..Len(vendor) : vendor[i].api \in apis}

\* str(data) of a str or Path argument
DataStr(data) == IF data.t = "str" THEN data.s ELSE PathStr(data.s)

KnownExtensions ==
    { <<".","c","s","v">>, <<".","j","s","o","n">>, <<".","j","s","o","n","l">>,
      <<".","n","d","j","s","o","n">>, <<".","p","a","r","q","u","e","t">>,
      <<".","a","v","r","o">>, <<".","o","r","c">> }

\* a source format is given, or the extension names one: the text of a
\* gs:// URI ends with a known extension, the suffix of a local path is one in
\* whatever letter case
FormatKnown(data, source_format) ==
    \/ source_format # PyNone
    \/ /\ StartsWith(DataStr(data), GS)
       /\ \E e \in KnownExtensions : EndsWith(DataStr(data), e)
    \/ /\ ~StartsWith(DataStr(data), GS)
       /\ Lower(PathSuffix(data.s)) \in KnownExtensions

\* the dispatch of Table.write for every shape of data but str and Path
WriteOtherShapes ==
    CASE call.data = PyNone /\ call.schema # PyNone ->
            /\ Len(vendor) = 1
            /\ vendor[1].api = "create_table"
      [] call.data = PyNone /\ call.schema = PyNone ->
            /\ result.kind = "raise" /\ result.type = "ValueError"
            /\ vendor = <<>>
      [] call.data.t = "DataFrame" ->
            /\ Cardinality(CallsOf(LoadApis)) = 1
            /\ vendor[1].api = "load_table_from_dataframe"
            /\ CallsOf({"create_table"}) = {}
      [] call.data.t \in {"str", "Path"} -> TRUE
      [] OTHER ->
            /\ result.kind = "raise" /\ result.type = "TypeError"
            /\ vendor = <<>>

\* exactly one load job: from the URI when str(data) starts with gs://,
\* otherwise from the local file
OneLoadOfPath ==
    /\ Cardinality(CallsOf(LoadApis)) = 1
    /\ CallsOf({"create_table"}) = {}
    /\ vendor[1].api = IF StartsWith(DataStr(call.data), GS) THEN "load_table_from_uri"
                       ELSE "load_table_from_file"

\* C9 as amended: Table.write dispatches on the shape of data.  None with a
\* schema: exactly one create-table call and no load.  None without a schema:
\* a validation error and no vendor call.  A string or Path: when no source
\* format is given and the extension names none, a validation error and no
\* vendor call; when a local file cannot be opened, the error of open() and no
\* vendor call; otherwise exactly one load job, from the URI when the text
\* starts with gs://, else from the opened local file.  A DataFrame: exactly
\* one load-from-dataframe job.  Any other type: TypeError and no vendor call.
C9_WriteDispatch ==
    Returned({"write"}) =>
        /\ WriteOtherShapes
        /\ call.data.t \in {"str", "Path"} =>
              IF ~FormatKnown(call.data, call.source_format)
              THEN /\ result.kind = "raise" /\ result.type = "ValueError"
                   /\ vendor = <<>>
              ELSE IF ~StartsWith(DataStr(call.data), GS) /\ call.env.open.kind = "raise"
              THEN /\ result = call.env.open
                   /\ vendor = <<>>
              ELSE OneLoadOfPath

C9_Witness ==
    /\ Returned({"write"})
    /\ call.data = PyStr(<<"g","s",":","/","/","b","/","x",".","c","s","v">>)
    /\ call.source_format = PyNone
    /\ Len(vendor) = 2
    /\ vendor[1].api = "load_table_from_uri"
    /\ vendor[1].args.job_config.source_format = PyStr(CSV)
    /\ result = Return(PyNone)

\* C9 as claimed: every string or Path submits exactly one load job.
C9_Original ==
    Returned({"write"}) =>
        /\ WriteOtherShapes
        /\ call.data.t \in {"str", "Path"} => OneLoadOfPath

WaitApis == {"LoadJob.result", "ExtractJob.result", "CopyJob.result", "QueryJob.result"}

\* C10: a Table.write whose load job was submitted calls the job's result()
\* exactly once, straight after the submit, and returns only when that wait
\* has returned; an error of the wait is the error of the call.  insert,
\* to_gcs and copy make their one vendor call, return what it returned, and
\* call no job's wait.
C10_WaitAfterSubmit ==
    /\ Returned({"write"}) =>
          /\ \A i \in CallsOf(LoadApis) :
                vendor[i].outcome.kind = "return" =>
                    /\ Len(vendor) = i + 1
                    /\ vendor[i + 1].api = "LoadJob.result"
                    /\ vendor[i + 1].args.job = vendor[i].outcome.val
                    /\ IF vendor[i + 1].outcome.kind = "return"
                       THEN result = Return(PyNone)
                       ELSE result = vendor[i + 1].outcome
          /\ Cardinality(CallsOf(WaitApis)) <= 1
          /\ \A j \in CallsOf(WaitApis) :
                j > 1 /\ vendor[j - 1].api \in LoadApis
          /\ (result.kind = "return" /\ CallsOf(LoadApis) # {}) =>
                \E j \in CallsOf(WaitApis) : vendor[j].outcome.kind = "return"
    /\ Returned({"insert", "to_gcs", "copy"}) =>
          /\ CallsOf(WaitApis) = {}
          /\ Len(vendor) <= 1
          /\ Len(vendor) = 1 => result = vendor[1].outcome

C10_Witness ==
    /\ Returned({"write"})
    /\ call.data.t = "DataFrame"
    /\ Len(vendor) = 2
    /\ vendor[1].api = "load_table_from_dataframe"
    /\ vendor[1].outcome = Return(LoadJob)
    /\ vendor[2].api = "LoadJob.result"
    /\ vendor[2].outcome = Raise("BadRequest", "400")
    /\ result = Raise("BadRequest", "400")

\* C11: a Table.write of a DataFrame submits exactly one load job, from the
\* frame.  With no schema given the job's schema has one field per column of
\* the frame, in column order, named str(label) and typed from the column's
\* dtype; a schema mapping given replaces it by the fields built from the
\* mapping.  The job's write disposition is the one given, WRITE_TRUNCATE when
\* none is given.
C11_FrameWrite ==
    (Returned({"write"}) /\ call.data.t = "DataFrame") =>
        /\ Cardinality(CallsOf(LoadApis)) = 1
        /\ vendor[1].api = "load_table_from_dataframe"
        /\ vendor[1].args.source = call.data
        /\ LET cfg == vendor[1].args.job_config
               cols == call.data.cols
           IN  /\ call.schema = PyNone =>
                     /\ Len(cfg.schema.xs) = Len(cols)
                     /\ \A i \in 1..Len(cols) :
                           /\ cfg.schema.xs[i].name = Format(cols[i].name)
                           /\ cfg.schema.xs[i].field_type =
                                 _pandas_dtype_to_bigquery_type(cols[i].dtype)
               /\ call.schema # PyNone =>
                     /\ Len(cfg.schema.xs) = Len(call.schema.items)
                     /\ \A i \in 1..Len(call.schema.items) :
                           /\ cfg.schema.xs[i].name = call.schema.items[i][1]
                           /\ cfg.schema.xs[i].field_type =
                                 _normalize_type_name(call.schema.items[i][2])
               /\ cfg.write_disposition =
                     IF call.options.write_disposition = UNSET THEN WRITE_TRUNCATE
                     ELSE call.options.write_disposition.s

\* a two-column frame written with no schema and no disposition: INT64 and
\* STRING fields in column order, WRITE_TRUNCATE, the job waited for
C11_Witness ==
    /\ Returned({"write"})
    /\ call.data.t = "DataFrame"
    /\ Len(call.data.cols) = 2
    /\ call.schema = PyNone
    /\ call.options.write_disposition = UNSET
    /\ Len(vendor) = 2
    /\ vendor[1].args.job_config.schema =
          PyList(<<SchemaField(<<"a">>, <<"I","N","T","6","4">>), SchemaField(<<"0">>, <<"S","T","R","I","N","G">>)>>)
    /\ vendor[1].args.job_config.write_disposition = <<"W","R","I","T","E","_","T","R","U","N","C","A","T","E">>
    /\ result = Return(PyNone)

----------------------------------------------------------------------------
(* Dataset and Table: exists, create, delete, update *)

OnDataset == handle.t = "Dataset"
\* the fully qualified id of the handle the call was made on
QualifiedId ==
    IF OnDataset THEN handle.project_id \o DOT \o handle.dataset_id
    ELSE handle.project_id \o DOT \o handle.dataset_id \o DOT \o handle.table_id
VendorRaised(i, types) ==
    /\ vendor[i].outcome.kind = "raise"
    /\ vendor[i].outcome.type \in types
NotFoundTypes == {"NotFound"}
ConflictTypes == {"Conflict", "AlreadyExists", "Aborted"}

\* C12: Dataset.exists() and Table.exists() make exactly one vendor call,
\* get_dataset or get_table, with the handle's fully qualified id.  The result
\* is True when the call returns, False when and only when it raises NotFound,
\* and every other error of the vendor is the error of the call, unchanged.
C12_Exists ==
    Returned({"Dataset.exists", "Table.exists"}) =>
        /\ Len(vendor) = 1
        /\ vendor[1].outcome = call.outcome
        /\ IF OnDataset
           THEN /\ vendor[1].api = "get_dataset"
                /\ vendor[1].args.dataset_ref = QualifiedId
           ELSE /\ vendor[1].api = "get_table"
                /\ vendor[1].args.table = QualifiedId
        /\ call.outcome.kind = "return" => result = Return(PyBool(TRUE))
        /\ result = Return(PyBool(FALSE)) <=> VendorRaised(1, NotFoundTypes)
        /\ (call.outcome.kind = "raise" /\ ~VendorRaised(1, NotFoundTypes)) =>
              result = call.outcome

C12_Witness ==
    /\ Returned({"Table.exists"})
    /\ Len(vendor) = 1
    /\ vendor[1].api = "get_table"
    /\ vendor[1].args.table = <<"m","y","-","p","r","o","j",".","d","s",".","t">>
    /\ vendor[1].outcome = Raise("NotFound", "404")
    /\ result = Return(PyBool(FALSE))

\* C13: Dataset.create and Table.create make exactly one vendor create call.
\* When it returns, the call returns the handle.  When it raises a Conflict,
\* the call returns the handle if exists_ok is true and raises that Conflict
\* if it is false.  Every other error of the vendor is the error of the call.
C13_Create ==
    Returned({"Dataset.create", "Table.create"}) =>
        /\ Len(vendor) = 1
        /\ vendor[1].outcome = call.outcome
        /\ vendor[1].api = IF OnDataset THEN "create_dataset" ELSE "create_table"
        /\ IF call.outcome.kind = "return" THEN result = Return(handle)
           ELSE IF VendorRaised(1, ConflictTypes) /\ call.exists_ok.b
           THEN result = Return(handle)
           ELSE result = call.outcome

C13_Witness ==
    /\ Returned({"Dataset.create"})
    /\ call.exists_ok = PyBool(TRUE)
    /\ Len(vendor) = 1
    /\ vendor[1].api = "create_dataset"
    /\ vendor[1].args.dataset.location = PyStr(<<"E","U">>)
    /\ vendor[1].outcome = Raise("Conflict", "409")
    /\ result = Return(handle)

\* C14: Dataset.delete and Table.delete make exactly one vendor delete call,
\* with not_found_ok=False whatever the caller's flag.  When it raises
\* NotFound, the call returns None if the caller's not_found_ok is true and
\* raises that NotFound if it is false.  Every other error of the vendor is
\* the error of the call.
C14_Delete ==
    Returned({"Dataset.delete", "Table.delete"}) =>
        /\ Len(vendor) = 1
        /\ vendor[1].outcome = call.outcome
        /\ vendor[1].api = IF OnDataset THEN "delete_dataset" ELSE "delete_table"
        /\ vendor[1].args.not_found_ok = FALSE
        /\ IF call.outcome.kind = "return" THEN result = Return(PyNone)
           ELSE IF VendorRaised(1, NotFoundTypes) /\ call.not_found_ok.b
           THEN result = Return(PyNone)
           ELSE result = call.outcome

C14_Witness ==
    /\ Returned({"Table.delete"})
    /\ call.not_found_ok = PyBool(TRUE)
    /\ Len(vendor) = 1
    /\ vendor[1].api = "delete_table"
    /\ vendor[1].args.not_found_ok = FALSE
    /\ vendor[1].outcome = Raise("NotFound", "404")
    /\ result = Return(PyNone)

\* the arguments of an update by name, and the names of those that are given
UpdateArgs ==
    IF OnDataset
    THEN << <<<<"d","e","s","c","r","i","p","t","i","o","n">>, call.description>>,
            <<<<"l","a","b","e","l","s">>, call.labels>>,
            <<<<"d","e","f","a","u","l","t","_","t","a","b","l","e","_","e","x","p","i","r","a","t","i","o","n","_","m","s">>, call.default_table_expiration_ms>> >>
    ELSE << <<<<"s","c","h","e","m","a">>, call.schema>>,
            <<<<"d","e","s","c","r","i","p","t","i","o","n">>, call.description>>,
            <<<<"l","a","b","e","l","s">>, call.labels>> >>
GivenNames == {UpdateArgs[i][1] : i \in {j \in 1..3 : UpdateArgs[j][2] # PyNone}}
SeqRange(q) == {q[i] : i \in 1..Len(q)}

\* a property of the resource sent is the argument when one is given (for a
\* schema, some list of fields) and the fetched value when the argument is None
FieldKept(arg, sent, fetched) == IF arg = PyNone THEN sent = fetched ELSE sent = arg
SentAsUpdated(sent, fetched) ==
    /\ sent.ref = fetched.ref
    /\ FieldKept(call.description, sent.description, fetched.description)
    /\ FieldKept(call.labels, sent.labels, fetched.labels)
    /\ IF OnDataset
       THEN /\ sent.location = fetched.location
            /\ FieldKept(call.default_table_expiration_ms,
                         sent.default_table_expiration_ms,
                         fetched.default_table_expiration_ms)
       ELSE /\ sent.time_partitioning = fetched.time_partitioning
            /\ sent.clustering_fields = fetched.clustering_fields
            /\ call.schema = PyNone => sent.schema = fetched.schema

\* C15: Dataset.update and Table.update first fetch the resource by the
\* handle's id; when the fetch raises, that is the error of the call and
\* nothing is sent.  Otherwise, with every argument None no update request is
\* sent; with some argument given exactly one update request follows the
\* fetch, its field-name list names each given argument once and no other, and
\* the resource it carries is the fetched one with the given arguments set and
\* every other property as fetched.
C15_Update ==
    Returned({"Dataset.update", "Table.update"}) =>
        /\ Len(vendor) >= 1
        /\ vendor[1].api = IF OnDataset THEN "get_dataset" ELSE "get_table"
        /\ vendor[1].outcome = call.env.fetch
        /\ IF call.env.fetch.kind = "raise"
           THEN Len(vendor) = 1 /\ result = call.env.fetch
           ELSE IF GivenNames = {}
           THEN Len(vendor) = 1 /\ result = Return(handle)
           ELSE /\ Len(vendor) = 2
                /\ vendor[2].api = IF OnDataset THEN "update_dataset" ELSE "update_table"
                /\ SeqRange(vendor[2].args.fields) = GivenNames
                /\ Len(vendor[2].args.fields) = Cardinality(GivenNames)
                /\ SentAsUpdated(vendor[2].args.resource, call.env.fetch.val)
                /\ vendor[2].outcome = call.env.update
                /\ result = IF call.env.update.kind = "raise" THEN call.env.update
                            ELSE Return(handle)

C15_Witness ==
    /\ Returned({"Dataset.update"})
    /\ call.description = PyNone
    /\ call.labels = PyDict(<<>>)
    /\ call.default_table_expiration_ms = PyInt(0)
    /\ Len(vendor) = 2
    /\ vendor[2].args.fields = <<<<"l","a","b","e","l","s">>, <<"d","e","f","a","u","l","t","_","t","a","b","l","e","_","e","x","p","i","r","a","t","i","o","n","_","m","s">>>>
    /\ vendor[2].args.resource.description = PyStr(<<"o","l","d">>)
    /\ vendor[2].args.resource.labels = PyDict(<<>>)
    /\ result = Return(handle)

IsPrefix(a, b) == Len(a) <= Len(b) /\ SubSeq(b, 1, Len(a)) = a

\* the fields Table.update builds from a mapping: one per entry, in order,
\* named by the key and typed by the normalized value
BuiltFrom(fields, m) ==
    /\ Len(fields) = Len(m.items)
    /\ \A i \in 1..Len(m.items) :
          /\ fields[i].name = m.items[i][1]
          /\ fields[i].field_type = _normalize_type_name(m.items[i][2])

----------------------------------------------------------------------------
(* Schema conversion, format detection and load configuration *)

INT64 == <<"I","N","T","6","4">>
FLOAT64 == <<"F","L","O","A","T","6","4">>
STRING_ == <<"S","T","R","I","N","G">>
Canonical ==
    { <<"B","Y","T","E","S">>, STRING_, <<"D","A","T","E">>, <<"D","A","T","E","T","I","M","E">>, <<"T","I","M","E">>, <<"T","I","M","E","S","T","A","M","P">>, <<"N","U","M","E","R","I","C">>,
      <<"B","I","G","N","U","M","E","R","I","C">>, <<"G","E","O","G","R","A","P","H","Y">>, <<"J","S","O","N">>, <<"A","R","R","A","Y">>, <<"S","T","R","U","C","T">> }
\* the alias table as the specification lists it, on an uppercased string
InTable(u) ==
    u \in Canonical \cup { <<"I","N","T","E","G","E","R">>, <<"I","N","T">>, <<"B","I","G","I","N","T">>, <<"F","L","O","A","T">>, <<"D","O","U","B","L","E">>,
                           <<"B","O","O","L">>, <<"T","E","X","T">>, <<"V","A","R","C","H","A","R">> }
AliasOf(u) ==
    IF u \in {<<"I","N","T","E","G","E","R">>, <<"I","N","T">>, <<"B","I","G","I","N","T">>} THEN INT64
    ELSE IF u \in {<<"F","L","O","A","T">>, <<"D","O","U","B","L","E">>} THEN FLOAT64
    ELSE IF u = <<"B","O","O","L">> THEN <<"B","O","O","L","E","A","N">>
    ELSE IF u \in {<<"T","E","X","T">>, <<"V","A","R","C","H","A","R">>} THEN STRING_
    ELSE u

\* C21, as amended: dict_to_schema_fields never fails on a mapping of strings;
\* the type of field i is the alias-table entry of the uppercased type string
\* of entry i when the table holds it, and the uppercased type string itself
\* when it does not.
C21_TypeAliases ==
    Returned({"dict_to_schema_fields"}) =>
        /\ result.kind = "return"
        /\ Len(result.val.xs) = Len(call.schema_dict.items)
        /\ \A i \in 1..Len(call.schema_dict.items) :
              LET u == Upper(call.schema_dict.items[i][2])
              IN  result.val.xs[i].field_type = IF InTable(u) THEN AliasOf(u) ELSE u

\* a lowercase alias and a lowercase unknown type in one mapping
C21_Witness ==
    /\ Returned({"dict_to_schema_fields"})
    /\ call.schema_dict = PyDict(<< <<<<"a">>, <<"g","e","o","m","e","t","r","y">>>>, <<<<"B">>, <<"i","n","t">>>> >>)
    /\ result = Return(PyList(<<SchemaField(<<"a">>, <<"G","E","O","M","E","T","R","Y">>),
                                SchemaField(<<"B">>, INT64)>>))

\* C21 as claimed: a type string the table does not hold (after uppercasing)
\* comes out as the caller wrote it.
C21_Original ==
    Returned({"dict_to_schema_fields"}) =>
        /\ result.kind = "return"
        /\ \A i \in 1..Len(call.schema_dict.items) :
              LET t == call.schema_dict.items[i][2]
              IN  result.val.xs[i].field_type =
                      IF InTable(Upper(t)) THEN AliasOf(Upper(t)) ELSE t

\* C22: both conversions give one field per entry of the input, in the
\* input's order: field i is named by entry i (for a frame, str() of the
\* column label), and columns of one name stay separate fields.
C22_OrderAndNames ==
    /\ Returned({"dict_to_schema_fields"}) =>
          /\ result.kind = "return"
          /\ Len(result.val.xs) = Len(call.schema_dict.items)
          /\ \A i \in 1..Len(call.schema_dict.items) :
                result.val.xs[i].name = call.schema_dict.items[i][1]
    /\ Returned({"dataframe_to_schema_fields"}) =>
          /\ result.kind = "return"
          /\ Len(result.val.xs) = Len(call.df.cols)
          /\ \A i \in 1..Len(call.df.cols) :
                result.val.xs[i].name = Format(call.df.cols[i].name)

\* a frame with two columns labelled "a": two fields named "a", in order
C22_Witness ==
    /\ Returned({"dataframe_to_schema_fields"})
    /\ call.df = PyFrame(<<[name |-> PyStr(<<"a">>), dtype |-> <<"o","b","j","e","c","t">>],
                           [name |-> PyStr(<<"a">>), dtype |-> <<"i","n","t","6","4">>]>>)
    /\ result = Return(PyList(<<SchemaField(<<"a">>, STRING_), SchemaField(<<"a">>, INT64)>>))

SupportedExtensions ==
    {<<".","c","s","v">>, <<".","j","s","o","n">>, <<".","j","s","o","n","l">>, <<".","n","d","j","s","o","n">>, <<".","p","a","r","q","u","e","t">>, <<".","a","v","r","o">>, <<".","o","r","c">>}
FormatOf(ext) ==
    IF ext = <<".","c","s","v">> THEN CSV
    ELSE IF ext \in {<<".","j","s","o","n">>, <<".","j","s","o","n","l">>, <<".","n","d","j","s","o","n">>} THEN NEWLINE_DELIMITED_JSON
    ELSE IF ext = <<".","p","a","r","q","u","e","t">> THEN PARQUET
    ELSE IF ext = <<".","a","v","r","o">> THEN AVRO
    ELSE ORC

\* C23: detect_source_format(path) gives the format of the lowercased
\* extension of the path (pathlib's suffix of its last component) when that is
\* one of the seven supported extensions, whatever the case of its letters,
\* and raises ValueError otherwise, also for a path with no extension, with a
\* message that names every supported extension.
C23_DetectFormat ==
    Returned({"detect_source_format"}) =>
        LET ext == Lower(PathSuffix(call.path))
        IN  IF ext \in SupportedExtensions
            THEN result = Return(PyStr(FormatOf(ext)))
            ELSE /\ result.kind = "raise"
                 /\ result.type = "ValueError"
                 /\ \A e \in SupportedExtensions : Contains(result.text, e)

\* d.JSONL is newline-delimited JSON
C23_Witness ==
    /\ Returned({"detect_source_format"})
    /\ call.path = <<"d",".","J","S","O","N","L">>
    /\ result = Return(PyStr(NEWLINE_DELIMITED_JSON))

\* C24: for a gs:// URI the detector of Table.write (lines 110-121) and
\* detect_source_format agree: both give the same format or both fail.
C24_Original ==
    (Returned({"detect_source_format"}) /\ StartsWith(call.path, GS)) =>
        LET g == GcsSourceFormat(call.path)
        IN  IF result.kind = "return" THEN g.ok /\ PyStr(g.val) = result.val
            ELSE ~g.ok

----------------------------------------------------------------------------
(* Project identifiers *)

AllDigits(s) == Len(s) > 0 /\ \A i \in 1..Len(s) : s[i] \in Digit09
\* re.match(r"^[a-z][a-z0-9-]*[a-z0-9]$", s, re.IGNORECASE), read as Python
\* reads it: a final newline is let through and the two letters that fold
\* to k and s count as letters
ProjectIdPatternAnyCase(s) ==
    \E c \in DollarCores(s) :
        /\ Len(c) >= 2
        /\ c[1] \in LowerAZ \cup UpperAZ \cup FoldsToAZ
        /\ \A i \in 2..(Len(c) - 1) : c[i] \in Alnum \cup FoldsToAZ \cup {"-"}
        /\ c[Len(c)] \in Alnum \cup FoldsToAZ

\* C25, for the warehouse validator: validate_identifier called with a
\* project name returns the identifier when it is all digits or matches
\* ^[a-z][a-z0-9-]*[a-z0-9]$ without regard to case, and raises ValueError
\* for every other identifier.
C25_Original ==
    (Returned({"validate_identifier"}) /\ Contains(Lower(call.name), PROJECT)) =>
        LET s == call.identifier
        IN  IF AllDigits(s) \/ (Len(s) <= IdentifierMaxLen /\ ProjectIdPatternAnyCase(s))
            THEN result = Return(PyStr(s))
            ELSE result.kind = "raise" /\ result.type = "ValueError"

----------------------------------------------------------------------------
(* Client.load_data *)

Dots(s) == Cardinality({i \in 1..Len(s) : s[i] = "."})
\* the text between the dots before and after segment k of s
RECURSIVE Segment(_, _)
Segment(s, k) ==
    LET i == Find(s, DOT)
    IN  IF k = 1 THEN (IF i = 0 THEN s ELSE SubSeq(s, 1, i - 1))
        ELSE Segment(SubSeq(s, i + 1, Len(s)), k - 1)
\* the table a vendor call of a write is aimed at
TargetOf(c) == IF c.api = "create_table" THEN c.args.table ELSE c.args.destination

\* C26: Client.load_data fails with ValueError, before any vendor call, for
\* a table_id that has not 2 or 3 dot-separated segments; with 2 or 3 segments
\* it does what Table.write does on the table <client project>.<dataset>.<table>
\* of the last two segments, whatever a first of three segments says, and
\* every job or table it sends to the vendor is aimed at that table.
C26_LoadData ==
    Returned({"load_data"}) =>
        LET n == Dots(call.table_id) + 1
        IN  IF n \notin {2, 3}
            THEN /\ result.kind = "raise"
                 /\ result.type = "ValueError"
                 /\ vendor = <<>>
            ELSE LET target == Table_init(Segment(call.table_id, n),
                                          Segment(call.table_id, n - 1), bq.project_id)
                     w == Table_write(target, call.data, call.schema,
                              IF call.options.write_disposition = UNSET THEN WRITE_APPEND
                              ELSE call.options.write_disposition.s,
                              call.source_format, call.options.skip_leading_rows,
                              call.options.field_delimiter, call.env)
                 IN  /\ result = w.result
                     /\ vendor = w.vendor
                     /\ \A i \in 1..Len(vendor) :
                           vendor[i].api \in LoadApis \cup {"create_table"} =>
                               TargetOf(vendor[i]) =
                                   bq.project_id \o DOT \o Segment(call.table_id, n - 1)
                                       \o DOT \o Segment(call.table_id, n)

\* other.ds.t loaded from d.csv by the client of p1: the job goes to p1.ds.t,
\* appending
C26_Witness ==
    /\ Returned({"load_data"})
    /\ bq.project_id = <<"p","1">>
    /\ call.table_id = <<"o","t","h","e","r",".","d","s",".","t">>
    /\ call.data = PyStr(<<"d",".","c","s","v">>)
    /\ call.options.write_disposition = UNSET
    /\ Len(vendor) = 2
    /\ vendor[1].api = "load_table_from_file"
    /\ vendor[1].args.destination = <<"p","1",".","d","s",".","t">>
    /\ vendor[1].args.job_config.write_disposition = WRITE_APPEND
    /\ result = Return(PyNone)

----------------------------------------------------------------------------
(* Load configuration of file and URI loads *)

FileLoadApis == {"load_table_from_uri", "load_table_from_file"}
SchemaSet(config) == config.schema # PyNone
AutodetectEnabled(config) == config.autodetect = PyBool(TRUE)

\* C27 as the claim states it: in every file load that Table.write submits,
\* exactly one of "an explicit schema is set" and "autodetect is enabled"
\* holds of the load configuration, autodetect exactly when the caller gave no
\* schema.
C27_Original ==
    Returned({"write"}) =>
        \A i \in CallsOf(FileLoadApis) :
            LET config == vendor[i].args.job_config
            IN  /\ AutodetectEnabled(config) <=> call.schema = PyNone
                /\ SchemaSet(config) <=> ~AutodetectEnabled(config)

\* C28: create_load_job_config sets the CSV options for the source format
\* CSV alone: skip_leading_rows is the caller's value when one is given, 0
\* included, and 1 when none is; field_delimiter is set only when given. For
\* every other source format both stay unset, whatever the caller gave.
C28_CsvOptions ==
    Returned({"create_load_job_config"}) =>
        /\ result.kind = "return"
        /\ IF call.source_format.s = CSV
           THEN /\ result.val.skip_leading_rows =
                       (IF call.skip_leading_rows = PyNone THEN PyInt(1)
                        ELSE call.skip_leading_rows)
                /\ result.val.field_delimiter = call.field_delimiter
           ELSE /\ result.val.skip_leading_rows = PyNone
                /\ result.val.field_delimiter = PyNone

\* a CSV configuration asked to skip no row and to split on ';'
C28_Witness ==
    /\ Returned({"create_load_job_config"})
    /\ call.source_format = PyStr(CSV)
    /\ call.skip_leading_rows = PyInt(0)
    /\ call.field_delimiter = PyStr(<<";">>)
    /\ result.val.skip_leading_rows = PyInt(0)
    /\ result.val.field_delimiter = PyStr(<<";">>)

----------------------------------------------------------------------------
(* Properties of the query specification *)

\* C29 as the claim states it: a call of Client.query leaves every
\* QueryJobConfig object, the client's default and the ones the caller passes,
\* with the settings it had before the call.
C29_Original == [][handle'.objs = handle.objs]_vars

=============================================================================
